---- MODULE Spec2Model ----
(***************************************************************************)
(* solid-better-refresh: the runtime persistence registry                  *)
(* (packages/solid-better-refresh/src/runtime.ts).                         *)
(*                                                                         *)
(* One hot-reload store (hot.data) with its five slots, the module-level   *)
(* WeakSet pendingResets and the host's microtask queue.  Strings are TLA+ *)
(* strings, so that key building ("::" joins, template literals) and key   *)
(* parsing (split) are computed as the code computes them.                 *)
(***************************************************************************)
EXTENDS Integers, Sequences, FiniteSets, TLC

VARIABLES
    registry,        \* hot.data["__hmr_registry"]
    prevStructure,   \* hot.data["__hmr_prevStructure"]
    invalidated,     \* hot.data["__hmr_invalidated"]
    counters,        \* hot.data["__hmr_instanceCounters"]
    warned,          \* hot.data["__hmr_warnedAmbiguous"]
    pendingResets,   \* the module-level WeakSet of hot.data objects
    microtasks,      \* the host's microtask queue (callbacks queued, FIFO)
    callCount,       \* number of factory invocations so far (names the next fresh value)
    ret,             \* observation: the last operation, its inputs and its outcome
    batch,           \* observation: the persist calls since the last counter reset
    prevBatch,       \* observation: the persist calls of the last non-empty cycle before
    events,          \* observation: the counter resets since prevBatch ended
    prevEvents,      \* observation: the counter resets that preceded prevBatch
    warnCount,       \* observation: ambiguity warnings emitted so far, per CounterKey
    inputs,          \* the input universe of the run (fixed by Init)
    state,           \* the source transform: PluginState of the file-compilation pass
    body,            \* the source transform: program.node.body, the top-level statements
    visited,         \* observation: the call expressions visited so far and their outcome
    pc,              \* the source transform: position of the traversal
    vite,            \* the Vite plugins: their isDev flags and what they served last
    fallback         \* the inline fallback runtime: its store, its pending reset, its last return

vars == <<registry, prevStructure, invalidated, counters, warned, pendingResets,
          microtasks, callCount, ret, batch, prevBatch, events, prevEvents, warnCount,
          inputs, state, body, visited, pc, vite, fallback>>

hotVars == <<registry, prevStructure, invalidated, counters, warned>>

\* the variables of the runtime registry and of the source transform
runtimeVars == <<hotVars, pendingResets, microtasks, callCount, ret, batch, prevBatch,
                 events, prevEvents, warnCount>>
transformVars == <<state, body, visited, pc>>
viteVars == <<vite, fallback>>

-----------------------------------------------------------------------------
(* Bounds of the model.  Each input universe below names the ones it uses. *)

\* persist calls with a store in one cycle (between two counter resets)
LifecycleMaxBatch == 2
InstancesMaxBatch == 3
\* factory invocations in one run
LifecycleMaxCalls == 3
InstancesMaxCalls == 6
ReorderMaxCalls == 2
PassThroughMaxCalls == 3
ModeMaxCalls == 2
FingerprintMaxCalls == 2
SlotMaxCalls == 2

\* factory invocations of each runtime when the two are run side by side
LockstepMaxCalls == 2

\* factory invocations, failed ones included, in a run with a failing factory
FailureMaxCalls == 3

\* call expressions visited in a file whose units share a name
SharedNameMaxVisits == 3
WarningMaxCalls == 4
\* call expressions the source transform meets in one file
ScopeMaxVisits == 2
SummaryMaxVisits == 3
ParamsMaxVisits == 2
MatchMaxVisits == 2
ArrangementMaxVisits == 2
\* checkStructure calls with no persist call in between
LifecycleMaxChecks == 1
InstancesMaxChecks == 2

-----------------------------------------------------------------------------
(* JavaScript values.                                                      *)

Undefined == [t |-> "undefined"]
Null == [t |-> "null"]
Str(s) == [t |-> "string", s |-> s]
Num(n) == [t |-> "number", n |-> n]
Bool(b) == [t |-> "boolean", b |-> b]
Func(id) == [t |-> "function", ref |-> id]
Obj(fields) == [t |-> "object", fields |-> fields]
MapOf(m) == [t |-> "map", m |-> m]
SetOf(s) == [t |-> "set", s |-> s]

EmptyFields == [x \in {} |-> Undefined]

\* map/object update and deletion
Put(f, k, v) == [x \in DOMAIN f \cup {k} |-> IF x = k THEN v ELSE f[x]]
Without(f, ks) == [x \in DOMAIN f \ ks |-> f[x]]

\* truthiness of the values the code tests with "!x" / "x ? a : b"
Truthy(v) ==
    CASE v.t = "undefined" -> FALSE
      [] v.t = "null" -> FALSE
      [] v.t = "string" -> v.s /= ""
      [] v.t = "number" -> v.n /= 0
      [] v.t = "boolean" -> v.b
      [] OTHER -> TRUE

\* `${v}`: a primitive, a built-in function or a plain object
TemplateString(v) ==
    CASE v.t = "string" -> v.s
      [] v.t = "number" -> ToString(v.n)
      [] v.t = "boolean" -> (IF v.b THEN "true" ELSE "false")
      [] v.t = "null" -> "null"
      [] v.t = "function" -> "function " \o v.ref \o "() { [native code] }"
      [] v.t = "object" -> "[object Object]"
      [] OTHER -> "undefined"

-----------------------------------------------------------------------------
(* String helpers: String.prototype.startsWith and String.prototype.split  *)
(* restricted to what componentFromKey needs.                              *)

StartsWith(s, p) == Len(s) >= Len(p) /\ SubSeq(s, 1, Len(p)) = p

\* least position j >= i with s[j..j+1] = "::", or 0 when there is none
RECURSIVE FindSep(_, _)
FindSep(s, i) ==
    IF i + 1 > Len(s) THEN 0
    ELSE IF SubSeq(s, i, i + 1) = "::" THEN i
    ELSE FindSep(s, i + 1)

\* key.split("::")[1] ?? ""
componentFromKey(key) ==
    LET a == FindSep(key, 1) IN
    IF a = 0 THEN ""
    ELSE LET rest == SubSeq(key, a + 2, Len(key))
             b == FindSep(rest, 1)
         IN IF b = 0 THEN rest ELSE SubSeq(rest, 1, b - 1)

isPrimitive(v) == v.t \notin {"object", "function", "map", "set"}

hasPrimitiveIdentity(props) ==
    IF ~Truthy(props) \/ props.t /= "object" THEN FALSE
    ELSE IF "id" \in DOMAIN props.fields /\ isPrimitive(props.fields["id"]) THEN TRUE
    ELSE IF "key" \in DOMAIN props.fields /\ isPrimitive(props.fields["key"]) THEN TRUE
    ELSE FALSE

\* the UTF-16 code units of the characters field names are made of, ascending
CodeUnits == "ABCDEFGHIJKLMNOPQRSTUVWXYZ_abcdefghijklmnopqrstuvwxyz"
CodeUnit(c) == CHOOSE i \in 1..Len(CodeUnits) : SubSeq(CodeUnits, i, i) = c

\* a < b in the default order of Array.prototype.sort: by UTF-16 code units
RECURSIVE StringLess(_, _)
StringLess(a, b) ==
    IF b = "" THEN FALSE
    ELSE IF a = "" THEN TRUE
    ELSE LET x == CodeUnit(SubSeq(a, 1, 1))
             y == CodeUnit(SubSeq(b, 1, 1))
         IN IF x /= y THEN x < y
            ELSE StringLess(SubSeq(a, 2, Len(a)), SubSeq(b, 2, Len(b)))

\* the strings of S in ascending order
RECURSIVE Ascending(_)
Ascending(S) ==
    IF S = {} THEN <<>>
    ELSE LET least == CHOOSE x \in S : \A y \in S \ {x} : StringLess(x, y)
         IN <<least>> \o Ascending(S \ {least})

\* Object.keys(props): the own field names in insertion order (an object whose
\* insertion order is not stated lists them in ascending order)
ObjectKeys(props) ==
    IF "keys" \in DOMAIN props THEN props.keys ELSE Ascending(DOMAIN props.fields)

\* slip: the field names are not sorted
SortKeys_InsertionOrder(keys) == keys

\* keys.sort()
SortKeys(keys) == Ascending({keys[i] : i \in DOMAIN keys})

\* parts.join("&") over the primitive fields, in the order of sorted
RECURSIVE JoinPrimitiveParts(_, _, _, _)
JoinPrimitiveParts(fields, sorted, i, acc) ==
    IF i > Len(sorted) THEN acc
    ELSE LET k == sorted[i] IN
         IF isPrimitive(fields[k])
         THEN LET part == k \o "=" \o TemplateString(fields[k]) IN
              JoinPrimitiveParts(fields, sorted, i + 1,
                                 IF acc = <<>> THEN <<part>>
                                 ELSE <<acc[1] \o "&" \o part>>)
         ELSE JoinPrimitiveParts(fields, sorted, i + 1, acc)

\* slip: the explicit identity fields are tested before the call-site token
fingerprintProps_IdFirst(props) ==
    IF ~Truthy(props) \/ props.t /= "object" THEN Null
    ELSE LET f == props.fields IN
         IF "id" \in DOMAIN f /\ isPrimitive(f["id"])
         THEN Str("id=" \o TemplateString(f["id"]))
         ELSE IF "key" \in DOMAIN f /\ isPrimitive(f["key"])
         THEN Str("key=" \o TemplateString(f["key"]))
         ELSE IF "__hmrSite" \in DOMAIN f /\ isPrimitive(f["__hmrSite"])
         THEN Str("site=" \o TemplateString(f["__hmrSite"]))
         ELSE LET parts == JoinPrimitiveParts(f, SortKeys(ObjectKeys(props)), 1, <<>>) IN
              IF parts /= <<>> THEN Str(parts[1]) ELSE Null

\* string | null
fingerprintProps(props) ==
    IF ~Truthy(props) \/ props.t /= "object" THEN Null
    ELSE LET f == props.fields IN
         IF "__hmrSite" \in DOMAIN f /\ isPrimitive(f["__hmrSite"])
         THEN Str("site=" \o TemplateString(f["__hmrSite"]))
         ELSE IF "id" \in DOMAIN f /\ isPrimitive(f["id"])
         THEN Str("id=" \o TemplateString(f["id"]))
         ELSE IF "key" \in DOMAIN f /\ isPrimitive(f["key"])
         THEN Str("key=" \o TemplateString(f["key"]))
         ELSE LET parts == JoinPrimitiveParts(f, SortKeys(ObjectKeys(props)), 1, <<>>) IN
              IF parts /= <<>> THEN Str(parts[1]) ELSE Null

-----------------------------------------------------------------------------
(* The store handle and the values factories create.                       *)

\* the one hot.data object of the run, and the handle (import.meta.hot) that holds it
HotData == "hot.data"
Hot == [t |-> "object", data |-> HotData]

\* slip: factory() is called without the arguments
Factory_NoArgs(args, n) == [t |-> "object", ref |-> n, args |-> <<>>]

\* factory(...args): every invocation creates a new object; n is its identity
Factory(args, n) == [t |-> "object", ref |-> n, args |-> args]

\* queueMicrotask(() => { hotData[INSTANCE_COUNTERS_KEY] = new Map(); pendingResets.delete(hotData) })
ResetCallback(hotData) == [fn |-> "cursorReset", hotData |-> hotData]

EmptyMap == [x \in {} |-> 0]

\* if (!hot) / if (!hotData): no store handle
NoStore(hot) == ~Truthy(hot)

\* slip: checkStructure leaves the counters of the previous cycle in place
CountersAfterCheck_Stale == counters

\* new Map<string, number>(): the counters checkStructure installs
CountersAfterCheck == MapOf(EmptyMap)

\* slip: the deferred reset clears the marker but leaves the counters in place
CountersAfterReset_Stale == counters

\* new Map<string, number>(): the counters the deferred reset installs
CountersAfterReset == MapOf(EmptyMap)

\* slip: an unchanged structure leaves the previous invalidation in place
NoInvalidation_Stale == invalidated

\* hotData[INVALIDATED_KEY] = null: the "no invalidation" marker
NoInvalidation == Null

\* slip: every persist call queues a reset of its own
NeedsSchedule_Always(hotData) == TRUE

\* whether scheduleCursorReset queues a new microtask
NeedsSchedule(hotData) == hotData \notin pendingResets

\* slip: the counter is never read back, every call is instance 0
CounterGet_Zero(m, counterKey) == 0

\* counters.get(counterKey) ?? 0
CounterGet(m, counterKey) == IF counterKey \in DOMAIN m THEN m[counterKey] ELSE 0

\* slip: the fingerprint is computed but never joined to the key
CounterKeyOf_NoFingerprint(key, fingerprint) == key

\* fingerprint ? `${key}::fp:${fingerprint}` : key
CounterKeyOf(key, fingerprint) ==
    IF Truthy(fingerprint) THEN key \o "::fp:" \o fingerprint.s ELSE key

\* slip: the instance number is left out of the key
InstanceKeyOf_Unnumbered(counterKey, instanceNum) == counterKey

\* `${counterKey}::${instanceNum}`
InstanceKeyOf(counterKey, instanceNum) == counterKey \o "::" \o ToString(instanceNum)

\* slip: the set of unit names is probed with the whole key
InvalidatedHas_WholeKey(inv, key) == inv.t = "set" /\ key \in inv.s

\* slip: a store without an InvalidatedSet counts every unit as invalidated
InvalidatedHas_Unset(inv, key) == inv.t /= "set" \/ componentFromKey(key) \in inv.s

\* invalidated?.has(componentFromKey(key))
InvalidatedHas(inv, key) == inv.t = "set" /\ componentFromKey(key) \in inv.s

\* slip: a restored entry is taken out of the registry
RegistryAfterPersist_TakeOut(reg, instanceKey, created, result) ==
    IF created THEN Put(reg, instanceKey, result) ELSE Without(reg, {instanceKey})

\* registry[instanceKey] = result on the two factory paths, nothing on the cache hit
RegistryAfterPersist(reg, instanceKey, created, result) ==
    IF created THEN Put(reg, instanceKey, result) ELSE reg

\* !fingerprint || (isSiteOnly && !hasPrimitiveIdentity(props))
AmbiguousByPosition(fingerprint, props) ==
    LET isSiteOnly == Truthy(fingerprint) /\ StartsWith(fingerprint.s, "site=") IN
    ~Truthy(fingerprint) \/ (isSiteOnly /\ ~hasPrimitiveIdentity(props))

\* slip: the warned set is never consulted
AlreadyWarned_Never(warned0, counterKey) == FALSE

\* warned.has(counterKey)
AlreadyWarned(warned0, counterKey) == counterKey \in warned0

\* the ambiguity diagnostic of __hmr_persist
AmbiguityWarning(counterKey, key) ==
    [msg |-> "ambiguous HMR identity", counterKey |-> counterKey,
     component |-> componentFromKey(key)]

\* prevStructure[name] / structure[name]: a number, or undefined for a missing name
CountOf(structure, name) ==
    IF name \in DOMAIN structure THEN Num(structure[name]) ELSE Undefined

\* slip: the snapshot of the first load is kept for good
SnapshotAfterCheck_OnlyFirst(structure) ==
    IF Truthy(prevStructure) THEN prevStructure ELSE Obj(structure)

\* hotData[STRUCTURE_KEY] = structure
SnapshotAfterCheck(structure) == Obj(structure)

\* slip: a missing snapshot is read as an empty one (hotData[STRUCTURE_KEY] ?? {})
PreviousSnapshot_Empty(prev) == IF Truthy(prev) THEN prev ELSE Obj([x \in {} |-> 0])

\* hotData[STRUCTURE_KEY] as StructureMap | undefined
PreviousSnapshot(prev) == prev

\* slip: only the names of the incoming summary are compared
ChangedComponents_CurrentOnly(prev, structure) ==
    {name \in DOMAIN structure :
        (IF name \in DOMAIN prev THEN Num(prev[name]) ELSE Undefined) /= Num(structure[name])}

\* slip: every name of either snapshot is reported as changed
ChangedComponents_All(prev, structure) == DOMAIN prev \cup DOMAIN structure

\* the names with prevStructure[name] !== structure[name]
ChangedComponents(prev, structure) ==
    {name \in DOMAIN prev \cup DOMAIN structure :
        CountOf(prev, name) /= CountOf(structure, name)}

\* slip: a structure change clears the whole registry
KeysOfChanged_Global(reg, changed) == DOMAIN reg

\* slip: the test is inverted, the entries of the unchanged units are deleted
KeysOfChanged_Inverted(reg, changed) == {k \in DOMAIN reg : componentFromKey(k) \notin changed}

\* the registry keys checkStructure deletes
KeysOfChanged(reg, changed) == {k \in DOMAIN reg : componentFromKey(k) \in changed}

\* the structure-change diagnostic of __hmr_checkStructure
StructureWarning(changed, prev, structure) ==
    [msg |-> "structure changed", changed |-> changed, previous |-> prev,
     current |-> structure]

-----------------------------------------------------------------------------
(* Observation of cycles: a cycle is the run of persist calls between two  *)
(* counter resets (a checkStructure call or the deferred reset).           *)

\* what a checkStructure call is observed to find: "first" when no snapshot was
\* stored, otherwise the unit names that the snapshot and the summary do not both
\* map to the same count
Drift(snapshot, summary) ==
    IF snapshot = Undefined THEN [first |-> TRUE, units |-> {}]
    ELSE LET old == snapshot.fields IN
         [first |-> FALSE,
          units |-> {u \in DOMAIN old \ DOMAIN summary : TRUE}
                    \cup {u \in DOMAIN summary \ DOMAIN old : TRUE}
                    \cup {u \in DOMAIN old \cap DOMAIN summary : old[u] /= summary[u]}]

\* the checkStructure calls among the resets recorded in evs
ChecksIn(evs) == Cardinality({i \in DOMAIN evs : evs[i].op = "checkStructure"})

EndCycle(ev) ==
    IF batch /= <<>>
    THEN /\ prevBatch' = batch
         /\ prevEvents' = events
         /\ batch' = <<>>
         /\ events' = <<ev>>
    ELSE /\ events' = Append(events, ev)
         /\ UNCHANGED <<batch, prevBatch, prevEvents>>

-----------------------------------------------------------------------------
(* The operations.                                                         *)

scheduleCursorReset(hotData) ==
    IF NeedsSchedule(hotData)
    THEN /\ pendingResets' = pendingResets \cup {hotData}
         /\ microtasks' = Append(microtasks, ResetCallback(hotData))
    ELSE UNCHANGED <<pendingResets, microtasks>>

__hmr_persist(hot, key, factory, args, props) ==
    IF NoStore(hot)
    THEN /\ callCount < inputs.maxCalls
         /\ callCount' = callCount + 1
         /\ ret' = [op |-> "persist", hot |-> hot, key |-> key, args |-> args,
                    props |-> props, invoked |-> TRUE, threw |-> factory = "throws",
                    result |-> IF factory = "throws" THEN Undefined
                               ELSE Factory(args, callCount + 1),
                    warnings |-> {}]
         /\ UNCHANGED <<hotVars, pendingResets, microtasks, batch, prevBatch, events,
                        prevEvents, warnCount, inputs, transformVars, vite>>
    ELSE LET registry0 == IF Truthy(registry) THEN registry.fields ELSE EmptyFields
             fingerprint == IF Truthy(props) THEN fingerprintProps(props) ELSE Null
             counterKey == CounterKeyOf(key, fingerprint)
             counters0 == IF Truthy(counters) THEN counters.m ELSE EmptyMap
             instanceNum == CounterGet(counters0, counterKey)
             warn == /\ AmbiguousByPosition(fingerprint, props)
                     /\ instanceNum > 0
                     /\ inputs.devMode
             warned0 == IF Truthy(warned) THEN warned.s ELSE {}
             emits == warn /\ ~AlreadyWarned(warned0, counterKey)
             instanceKey == InstanceKeyOf(counterKey, instanceNum)
             isInvalidated == InvalidatedHas(invalidated, key)
             hit == ~isInvalidated /\ instanceKey \in DOMAIN registry0
             threw == ~hit /\ factory = "throws"
             fresh == Factory(args, callCount + 1)
             result == IF hit THEN registry0[instanceKey]
                       ELSE IF threw THEN Undefined ELSE fresh
         IN /\ Len(batch) < inputs.maxBatch
            /\ ~hit => callCount < inputs.maxCalls
            /\ scheduleCursorReset(hot.data)
            /\ registry' = Obj(RegistryAfterPersist(registry0, instanceKey,
                                                    ~hit /\ ~threw, fresh))
            /\ counters' = MapOf(Put(counters0, counterKey, instanceNum + 1))
            /\ warned' = IF warn THEN SetOf(warned0 \cup {counterKey}) ELSE warned
            /\ callCount' = IF hit THEN callCount ELSE callCount + 1
            /\ ret' = [op |-> "persist", hot |-> hot, key |-> key, args |-> args,
                       props |-> props, invoked |-> ~hit, threw |-> threw,
                       result |-> result,
                       warnings |-> IF emits THEN {AmbiguityWarning(counterKey, key)}
                                    ELSE {}]
            /\ batch' = Append(batch, [key |-> key, props |-> props, result |-> result,
                                       invoked |-> ~hit, counterKey |-> counterKey,
                                       instanceNum |-> instanceNum,
                                       instanceKey |-> instanceKey])
            /\ warnCount' = IF emits
                            THEN Put(warnCount, counterKey, CounterGet(warnCount, counterKey) + 1)
                            ELSE warnCount
            /\ UNCHANGED <<prevStructure, invalidated, prevBatch, events, prevEvents,
                           inputs, transformVars, vite>>

__hmr_checkStructure(hot, structure) ==
    IF NoStore(hot)
    THEN /\ ret' = [op |-> "checkStructure", hot |-> hot, structure |-> structure,
                    warnings |-> {}]
         /\ UNCHANGED <<hotVars, pendingResets, microtasks, callCount, batch, prevBatch,
                        events, prevEvents, warnCount, inputs, transformVars, vite>>
    ELSE LET prev == PreviousSnapshot(prevStructure)
             changed == IF Truthy(prev)
                        THEN ChangedComponents(prev.fields, structure)
                        ELSE {}
         IN /\ (batch = <<>> => ChecksIn(events) < inputs.maxChecks)
            /\ counters' = CountersAfterCheck
            /\ IF Truthy(prev)
               THEN IF changed /= {}
                    THEN /\ registry' =
                              IF registry.t \in {"undefined", "null"} THEN registry
                              ELSE Obj(Without(registry.fields,
                                               KeysOfChanged(registry.fields, changed)))
                         /\ invalidated' = SetOf(changed)
                    ELSE /\ invalidated' = NoInvalidation
                         /\ UNCHANGED registry
               ELSE UNCHANGED <<registry, invalidated>>
            /\ prevStructure' = SnapshotAfterCheck(structure)
            /\ ret' = [op |-> "checkStructure", hot |-> hot, structure |-> structure,
                       warnings |-> IF changed /= {}
                                    THEN {StructureWarning(changed, prev.fields, structure)}
                                    ELSE {}]
            /\ EndCycle([op |-> "checkStructure",
                         drift |-> Drift(prevStructure, structure)])
            /\ UNCHANGED <<warned, pendingResets, microtasks, callCount, warnCount, inputs,
                           transformVars, vite>>

\* the microtask queued by scheduleCursorReset runs
cursorReset ==
    /\ microtasks /= <<>>
    /\ counters' = CountersAfterReset
    /\ pendingResets' = pendingResets \ {Head(microtasks).hotData}
    /\ microtasks' = Tail(microtasks)
    /\ ret' = [op |-> "cursorReset"]
    /\ EndCycle([op |-> "cursorReset"])
    /\ UNCHANGED <<registry, prevStructure, invalidated, warned, callCount, warnCount,
                   inputs, transformVars, viteVars>>

-----------------------------------------------------------------------------
(* The source transform (babel-plugin.ts): one file-compilation pass.  The *)
(* traversal meets the call expressions of the file in source order; each  *)
(* is described by its callee, its arguments and the function-like         *)
(* ancestors between it and the program, innermost first.                  *)

ArrayOf(items) == [t |-> "array", items |-> items]

\* const DEFAULT_PRIMITIVES
DEFAULT_PRIMITIVES ==
    [n \in {"createSignal", "createStore"} |-> IF n = "createSignal" THEN "signal" ELSE "store"]

\* { ...DEFAULT_PRIMITIVES, ...Object.fromEntries(options.primitives.map((p) => [p, p])) }
primitiveMap(options) ==
    IF Truthy(options.primitives)
    THEN LET custom == {options.primitives.items[i] : i \in DOMAIN options.primitives.items}
         IN [n \in DOMAIN DEFAULT_PRIMITIVES \cup custom |->
                IF n \in custom THEN n ELSE DEFAULT_PRIMITIVES[n]]
    ELSE DEFAULT_PRIMITIVES

\* the properties every object literal inherits from Object.prototype
ObjectPrototypeKeys ==
    {"constructor", "hasOwnProperty", "isPrototypeOf", "propertyIsEnumerable",
     "toLocaleString", "toString", "valueOf", "__proto__"}

\* name in map: own and inherited properties
HasProperty(name, map) == name \in DOMAIN map \/ name \in ObjectPrototypeKeys

\* map[name]
GetProperty(map, name) ==
    IF name \in DOMAIN map THEN Str(map[name])
    ELSE IF name = "constructor" THEN Func("Object")
    ELSE IF name = "__proto__" THEN Obj(EmptyFields)
    ELSE IF name \in ObjectPrototypeKeys THEN Func(name)
    ELSE Undefined

\* /^[A-Z]/.test(name)
UpperLetters ==
    {"A", "B", "C", "D", "E", "F", "G", "H", "I", "J", "K", "L", "M",
     "N", "O", "P", "Q", "R", "S", "T", "U", "V", "W", "X", "Y", "Z"}
StartsUpperCase(name) == Len(name) >= 1 /\ SubSeq(name, 1, 1) \in UpperLetters

\* slip: a component is returned although a function boundary was crossed
RECURSIVE findEnclosingComponent_IgnoreCrossed(_, _, _)
findEnclosingComponent_IgnoreCrossed(scopes, i, crossedFunctionBoundary) ==
    IF i > Len(scopes) THEN Null
    ELSE LET current == scopes[i] IN
         IF current.type \in {"FunctionDeclaration", "FunctionExpression"}
         THEN IF current.id /= "" /\ StartsUpperCase(current.id)
              THEN [name |-> current.id, node |-> current]
              ELSE findEnclosingComponent_IgnoreCrossed(scopes, i + 1, TRUE)
         ELSE IF current.type = "ArrowFunctionExpression"
         THEN IF /\ current.parent.type = "VariableDeclarator"
                 /\ current.parent.id.type = "Identifier"
                 /\ StartsUpperCase(current.parent.id.name)
              THEN [name |-> current.parent.id.name, node |-> current]
              ELSE findEnclosingComponent_IgnoreCrossed(scopes, i + 1, TRUE)
         ELSE findEnclosingComponent_IgnoreCrossed(scopes, i + 1, crossedFunctionBoundary)

\* the while loop of findEnclosingComponent: scopes[i] is `current`
RECURSIVE findEnclosingComponent(_, _, _)
findEnclosingComponent(scopes, i, crossedFunctionBoundary) ==
    IF i > Len(scopes) THEN Null
    ELSE LET current == scopes[i] IN
         IF current.type \in {"FunctionDeclaration", "FunctionExpression"}
         THEN IF current.id /= "" /\ StartsUpperCase(current.id)
              THEN IF crossedFunctionBoundary THEN Null
                   ELSE [name |-> current.id, node |-> current]
              ELSE findEnclosingComponent(scopes, i + 1, TRUE)
         ELSE IF current.type = "ArrowFunctionExpression"
         THEN IF /\ current.parent.type = "VariableDeclarator"
                 /\ current.parent.id.type = "Identifier"
                 /\ StartsUpperCase(current.parent.id.name)
              THEN IF crossedFunctionBoundary THEN Null
                   ELSE [name |-> current.parent.id.name, node |-> current]
              ELSE findEnclosingComponent(scopes, i + 1, TRUE)
         ELSE findEnclosingComponent(scopes, i + 1, crossedFunctionBoundary)

\* string | null
getMatchedPrimitive(callee, map) ==
    IF callee.type = "Identifier" /\ HasProperty(callee.name, map) THEN Str(callee.name)
    ELSE IF /\ callee.type = "MemberExpression"
            /\ callee.property.type = "Identifier"
            /\ HasProperty(callee.property.name, map)
    THEN Str(callee.property.name)
    ELSE Null

\* String.prototype.indexOf: the least position of pat in s from i on, or 0
RECURSIVE IndexOf(_, _, _)
IndexOf(s, pat, i) ==
    IF i + Len(pat) - 1 > Len(s) THEN 0
    ELSE IF SubSeq(s, i, i + Len(pat) - 1) = pat THEN i
    ELSE IndexOf(s, pat, i + 1)

\* s.replace(pat, ""): the first occurrence only
RemoveFirst(s, pat) ==
    LET at == IndexOf(s, pat, 1) IN
    IF at = 0 THEN s ELSE SubSeq(s, 1, at - 1) \o SubSeq(s, at + Len(pat), Len(s))

\* process.cwd()
Cwd == "/w"

\* rawFilename.replace(process.cwd(), "").replace(/^\//, "")
RelativeFilename(st) ==
    LET rawFilename == IF Truthy(st.filename) THEN st.filename.s
                       ELSE IF Truthy(st.file.opts.filename) THEN st.file.opts.filename.s
                       ELSE "unknown"
        cut == RemoveFirst(rawFilename, Cwd)
    IN IF StartsWith(cut, "/") THEN SubSeq(cut, 2, Len(cut)) ELSE cut

\* body.reduce((acc, node, i) => isImportDeclaration(node) ? i : acc, -1) + 1
AfterLastImport(b) ==
    LET imports == {i \in DOMAIN b : b[i].type = "ImportDeclaration"} IN
    IF imports = {} THEN 0 ELSE CHOOSE i \in imports : \A j \in imports : j <= i

\* body.splice(at, 0, node), with at counted from 0
Splice(b, at, node) == SubSeq(b, 1, at) \o <<node>> \o SubSeq(b, at + 1, Len(b))

\* import { __hmr_persist, __hmr_checkStructure } from "virtual:solid-better-refresh"
RuntimeImport ==
    [type |-> "ImportDeclaration", n |-> 0, source |-> "virtual:solid-better-refresh",
     specifiers |-> <<"__hmr_persist", "__hmr_checkStructure">>]

\* __hmr_checkStructure(import.meta.hot?.data, metadata)
StructureCheck(metadata) ==
    [type |-> "ExpressionStatement", n |-> 0, callee |-> "__hmr_checkStructure",
     arguments |-> <<"import.meta.hot?.data", metadata>>]

\* originalArgs.some((arg) => t.isSpreadElement(arg))
HasSpread(arguments) == \E i \in DOMAIN arguments : arguments[i].type = "SpreadElement"

\* slip: the parameter is passed on only when it is the unit's sole parameter
HasPropsParam_Single(fnNode) == Len(fnNode.params) = 1 /\ fnNode.params[1].type = "Identifier"

\* fnNode.params.length > 0 && t.isIdentifier(fnNode.params[0])
HasPropsParam(fnNode) == Len(fnNode.params) > 0 /\ fnNode.params[1].type = "Identifier"

\* t.callExpression(t.identifier("__hmr_persist"), persistArgs)
PersistCall(stableKey, callee, arguments, fnNode) ==
    [type |-> "CallExpression", callee |-> [type |-> "Identifier", name |-> "__hmr_persist"],
     arguments |-> <<"import.meta.hot", Str(stableKey), callee, ArrayOf(arguments)>>
                   \o (IF HasPropsParam(fnNode)
                       THEN <<[type |-> "Identifier", name |-> fnNode.params[1].name]>>
                       ELSE <<>>)]

\* Program.enter
ProgramEnter ==
    /\ pc = "enter"
    /\ state' = [state EXCEPT !.hasInjectedImport = FALSE,
                              !.counters = EmptyMap,
                              !.componentPrimitiveCounts = EmptyMap,
                              !.filename = Str(RelativeFilename(state))]
    /\ pc' = "traverse"
    /\ UNCHANGED <<runtimeVars, viteVars, inputs, body, visited>>

\* slip: the category is left out of the key
StableKey_NoCategory(filename, name, typeCategory, currentIndex) ==
    filename \o "::" \o name \o "::" \o ToString(currentIndex)

\* `${state.filename}::${component.name}::${typeCategory}::${currentIndex}`
StableKey(filename, name, typeCategory, currentIndex) ==
    filename \o "::" \o name \o "::" \o TemplateString(typeCategory) \o "::"
        \o ToString(currentIndex)

\* the CallExpression visitor, on the next call expression of the file: call is the
\* node, at the top-level statement that holds it
CallExpression(call, at) ==
    LET map == primitiveMap(inputs.options)
        callee == call.callee
        primitiveName == getMatchedPrimitive(callee, map)
        component == IF primitiveName = Null THEN Null
                     ELSE findEnclosingComponent(call.scopes, 1, FALSE)
        skipped == primitiveName = Null \/ component = Null
        typeCategory == GetProperty(map, primitiveName.s)
        counterKey == component.name \o "::" \o TemplateString(typeCategory)
        currentIndex == CounterGet(state.counters, counterKey)
        totalKey == component.name
        stableKey == StableKey(state.filename.s, component.name, typeCategory,
                               currentIndex)
        spread == HasSpread(call.arguments)
        seen == [call |-> call, at |-> at, primitiveName |-> primitiveName,
                 component |-> IF skipped THEN Null ELSE Str(component.name)]
    IN /\ pc = "traverse"
       /\ Len(visited) < inputs.maxVisits
       /\ IF skipped
          THEN /\ visited' = Append(visited, seen @@
                                   [counted |-> FALSE, rewritten |-> FALSE,
                                    stableKey |-> Null, node |-> call])
               /\ UNCHANGED <<state, body>>
          ELSE /\ state' = [state EXCEPT
                               !.counters = Put(@, counterKey, currentIndex + 1),
                               !.componentPrimitiveCounts =
                                   Put(@, totalKey, CounterGet(@, totalKey) + 1),
                               !.hasInjectedImport = TRUE]
               /\ body' = IF ~state.hasInjectedImport
                          THEN Splice(body, AfterLastImport(body), RuntimeImport)
                          ELSE body
               /\ visited' = Append(visited, seen @@
                                   [counted |-> TRUE, rewritten |-> ~spread,
                                    stableKey |-> Str(stableKey),
                                    node |-> IF spread THEN call
                                             ELSE PersistCall(stableKey, callee,
                                                              call.arguments,
                                                              component.node)])
       /\ UNCHANGED <<runtimeVars, viteVars, inputs, pc>>

\* Program.exit
ProgramExit ==
    /\ pc = "traverse"
    /\ body' = IF state.hasInjectedImport /\ DOMAIN state.componentPrimitiveCounts /= {}
               THEN Splice(body, AfterLastImport(body),
                           StructureCheck(state.componentPrimitiveCounts))
               ELSE body
    /\ pc' = "done"
    /\ UNCHANGED <<runtimeVars, viteVars, inputs, state, visited>>

-----------------------------------------------------------------------------
(* The Vite plugins (vite-plugin.ts): the runtime plugin serves the        *)
(* virtual module, the transform plugin runs the source transform on a     *)
(* file.  Each keeps its own isDev flag, set by its configResolved hook.   *)

VIRTUAL_MODULE_ID == "virtual:solid-better-refresh"
\* "\0" + VIRTUAL_MODULE_ID: the NUL character is written as the two characters \0
RESOLVED_VIRTUAL_MODULE_ID == "\\0" \o VIRTUAL_MODULE_ID

\* the two module sources the runtime plugin can serve
RUNTIME_CODE == "RUNTIME_CODE"
PROD_STUB == "PROD_STUB"

\* config.command === "serve"
IsServe(config) == config.command = "serve"

\* slip: the full engine is served whatever the mode
ServedModule_Always(isDev) == RUNTIME_CODE

\* isDev ? RUNTIME_CODE : PROD_STUB
ServedModule(isDev) == IF isDev THEN RUNTIME_CODE ELSE PROD_STUB

\* s.includes(pat)
Includes(s, pat) == IndexOf(s, pat, 1) /= 0

\* /\.[jt]sx$/.test(id)
IsJsxFile(id) ==
    Len(id) >= 4 /\ SubSeq(id, Len(id) - 3, Len(id)) \in {".jsx", ".tsx"}

\* ["createSignal", "createStore", ...options.primitives]
quickCheckNames(options) ==
    {"createSignal", "createStore"}
        \cup (IF Truthy(options.primitives) /\ options.primitives.items /= <<>>
              THEN {options.primitives.items[i] : i \in DOMAIN options.primitives.items}
              ELSE {})

\* the result of babel.transformAsync(code, { filename: id, plugins: [[plugin, options]] })
BabelResult(code, id, options) ==
    [code |-> [babel |-> "solid-better-refresh", source |-> code, filename |-> id,
               options |-> options],
     map |-> [source |-> code]]

\* the variables a plugin hook leaves alone
hookFrame == <<hotVars, pendingResets, microtasks, callCount, batch, prevBatch, events,
               prevEvents, warnCount, inputs, transformVars, fallback>>

\* configResolved(config), called by the host on both plugins
configResolved(config) ==
    /\ vite' = [vite EXCEPT !.isDev = IsServe(config),
                            !.transformIsDev = IsServe(config),
                            !.command = Str(config.command)]
    /\ ret' = [op |-> "configResolved", command |-> config.command]
    /\ UNCHANGED hookFrame

\* resolveId(id)
resolveId(id) ==
    /\ ret' = [op |-> "resolveId", id |-> id,
               result |-> IF id = VIRTUAL_MODULE_ID THEN Str(RESOLVED_VIRTUAL_MODULE_ID)
                          ELSE Undefined]
    /\ UNCHANGED <<hookFrame, vite>>

\* load(id)
load(id) ==
    LET result == IF id = RESOLVED_VIRTUAL_MODULE_ID THEN Str(ServedModule(vite.isDev))
                  ELSE Undefined
    IN /\ vite' = [vite EXCEPT !.module = IF result = Undefined THEN @ ELSE result]
       /\ ret' = [op |-> "load", id |-> id, result |-> result]
       /\ UNCHANGED hookFrame

\* transform(code, id) of the transform plugin
transform(code, id) ==
    LET skips == \/ ~vite.transformIsDev
                 \/ ~IsJsxFile(id)
                 \/ Includes(id, "node_modules")
                 \/ ~\E name \in quickCheckNames(inputs.options) : Includes(code, name)
    IN /\ ret' = [op |-> "transform", code |-> code, id |-> id,
                  result |-> IF skips THEN Undefined
                             ELSE BabelResult(code, id, inputs.options)]
       /\ UNCHANGED <<hookFrame, vite>>

\* PROD_STUB: export function __hmr_persist(hot, key, factory, args, props)
Stub__hmr_persist(hot, key, factory, args, props) ==
    /\ callCount < inputs.maxCalls
    /\ callCount' = callCount + 1
    /\ ret' = [op |-> "persist", hot |-> hot, key |-> key, args |-> args,
               props |-> props, invoked |-> TRUE, threw |-> factory = "throws",
               result |-> IF factory = "throws" THEN Undefined
                          ELSE Factory(args, callCount + 1),
               warnings |-> {}]
    /\ UNCHANGED <<hotVars, pendingResets, microtasks, batch, prevBatch, events,
                   prevEvents, warnCount, inputs, transformVars, viteVars>>

\* PROD_STUB: export function __hmr_checkStructure() {}
Stub__hmr_checkStructure(hot, structure) ==
    /\ ret' = [op |-> "checkStructure", hot |-> hot, structure |-> structure,
               warnings |-> {}]
    /\ UNCHANGED <<hotVars, pendingResets, microtasks, callCount, batch, prevBatch,
                   events, prevEvents, warnCount, inputs, transformVars, viteVars>>

-----------------------------------------------------------------------------
(* Inputs and specifications.                                              *)

\* the key the transform gives a call site: `${filename}::${component}::${type}::${index}`
PersistKey(file, unit, category, index) ==
    file \o "::" \o unit \o "::" \o category \o "::" \o ToString(index)

Units == {"A", "B"}
KeyA0 == PersistKey("f", "A", "signal", 0)
KeyB0 == PersistKey("f", "B", "signal", 0)

Structure(a, b) == [name \in {"A", "B"} |-> IF name = "A" THEN a ELSE b]
StructureA(a) == [name \in {"A"} |-> a]
StructureB(b) == [name \in {"B"} |-> b]

\* own-module reloads and ancestor re-renders of two units, matched by position
LifecycleInputs ==
    [hots |-> {Hot},
     keys |-> {KeyA0, KeyB0},
     factories |-> {"fresh"},
     args |-> {<<>>},
     props |-> {Undefined},
     structures |-> {Structure(1, 1), Structure(2, 1)},
     devMode |-> TRUE,
     maxBatch |-> LifecycleMaxBatch,
     maxCalls |-> LifecycleMaxCalls,
     maxChecks |-> LifecycleMaxChecks]

\* one call site rendered several times (<Counter /><Counter /><Counter />)
InstancesInputs ==
    [hots |-> {Hot},
     keys |-> {KeyA0},
     factories |-> {"fresh"},
     args |-> {<<>>},
     props |-> {Undefined},
     structures |-> {StructureA(1), StructureA(2)},
     devMode |-> TRUE,
     maxBatch |-> InstancesMaxBatch,
     maxCalls |-> InstancesMaxCalls,
     maxChecks |-> InstancesMaxChecks]

\* external inputs with an explicit identity field, with and without a call-site token
PropsId(id) == Obj([f \in {"id"} |-> id])
PropsSiteId(site, id) ==
    Obj([f \in {"__hmrSite", "id"} |-> IF f = "id" THEN id ELSE Str(site)])

\* one call site whose instances carry identity props and are rendered in any order
ReorderInputs ==
    [hots |-> {Hot},
     keys |-> {KeyA0},
     factories |-> {"fresh"},
     args |-> {<<>>},
     props |-> {PropsId(Str("a")), PropsId(Str("b")),
                PropsSiteId("s", Str("a")), PropsSiteId("s", Str("b"))},
     structures |-> {StructureA(1)},
     devMode |-> TRUE,
     maxBatch |-> LifecycleMaxBatch,
     maxCalls |-> ReorderMaxCalls,
     maxChecks |-> LifecycleMaxChecks]

\* calls with and without a store handle (import.meta.hot absent: null or undefined)
PassThroughInputs ==
    [hots |-> {Hot, Null, Undefined},
     keys |-> {KeyA0},
     factories |-> {"fresh"},
     args |-> {<<>>, <<42>>},
     props |-> {Undefined},
     structures |-> {StructureA(1), StructureA(2)},
     devMode |-> TRUE,
     maxBatch |-> LifecycleMaxBatch,
     maxCalls |-> PassThroughMaxCalls,
     maxChecks |-> LifecycleMaxChecks]

\* a record literal of external inputs: field names and their values, pairwise
PropsOf(names, values) ==
    Obj([f \in {names[i] : i \in DOMAIN names} |->
            values[CHOOSE i \in DOMAIN names : names[i] = f]])

\* instances of one call site reached from different JSX sites, with equal id and key
SiteInputs ==
    [hots |-> {Hot},
     keys |-> {KeyA0},
     factories |-> {"fresh"},
     args |-> {<<>>},
     props |-> {PropsOf(<<"__hmrSite", "id", "key">>, <<Str("site-a"), Str("same"), Num(1)>>),
                PropsOf(<<"__hmrSite", "id", "key">>, <<Str("site-b"), Str("same"), Num(1)>>),
                PropsOf(<<"__hmrSite", "key">>, <<Str("site-a"), Num(1)>>),
                PropsOf(<<"__hmrSite", "id">>, <<Obj(EmptyFields), Str("same")>>),
                PropsId(Str("same"))},
     structures |-> {StructureA(1)},
     devMode |-> TRUE,
     maxBatch |-> LifecycleMaxBatch,
     maxCalls |-> ReorderMaxCalls,
     maxChecks |-> LifecycleMaxChecks]

\* reloads that add a unit, remove a unit or change a unit's count
StructureInputs ==
    [hots |-> {Hot},
     keys |-> {KeyA0, KeyB0},
     factories |-> {"fresh"},
     args |-> {<<>>},
     props |-> {Undefined},
     structures |-> {StructureA(1), StructureA(2), StructureB(1), Structure(1, 1)},
     devMode |-> TRUE,
     maxBatch |-> LifecycleMaxBatch,
     maxCalls |-> ReorderMaxCalls,
     maxChecks |-> LifecycleMaxChecks]

\* duplicate instances of one call site, with and without identity in their inputs
WarningInputs ==
    [hots |-> {Hot},
     keys |-> {KeyA0},
     factories |-> {"fresh"},
     args |-> {<<>>},
     props |-> {Undefined,
                PropsOf(<<"__hmrSite">>, <<Str("loop-site")>>),
                PropsOf(<<"__hmrSite", "id">>, <<Str("loop-site"), Str("a")>>)},
     structures |-> {StructureA(1), StructureA(2)},
     devMode |-> TRUE,
     maxBatch |-> LifecycleMaxBatch,
     maxCalls |-> WarningMaxCalls,
     maxChecks |-> LifecycleMaxChecks]

\* the store before its first use
(* The inline fallback runtime (vite-plugin.ts, the catch branch of the     *)
(* RUNTIME_CODE initialisation): the module text served when the built     *)
(* runtime.js cannot be read.  It keeps a store of its own, held in the    *)
(* variable fallback.                                                      *)

\* the fallback's store before its first call
InlineStore ==
    [registry |-> Undefined, prevStructure |-> Undefined, invalidated |-> Undefined,
     counters |-> Undefined, pending |-> FALSE, callCount |-> 0, ret |-> [op |-> "init"]]

\* fingerprintProps of the fallback: id, then key, then the sorted scalar fields
Inline_fingerprintProps(props) ==
    IF ~Truthy(props) \/ props.t /= "object" THEN Null
    ELSE LET f == props.fields IN
         IF "id" \in DOMAIN f /\ isPrimitive(f["id"])
         THEN Str("id=" \o TemplateString(f["id"]))
         ELSE IF "key" \in DOMAIN f /\ isPrimitive(f["key"])
         THEN Str("key=" \o TemplateString(f["key"]))
         ELSE LET parts == JoinPrimitiveParts(f, SortKeys(ObjectKeys(props)), 1, <<>>) IN
              IF parts /= <<>> THEN Str(parts[1]) ELSE Null

\* __hmr_persist of the fallback
Inline__hmr_persist(hot, key, factory, args, props) ==
    IF NoStore(hot)
    THEN fallback' =
             [fallback EXCEPT
                 !.callCount = @ + 1,
                 !.ret = [op |-> "persist", invoked |-> TRUE, threw |-> factory = "throws",
                          result |-> IF factory = "throws" THEN Undefined
                                     ELSE Factory(args, fallback.callCount + 1)]]
    ELSE LET registry0 == IF Truthy(fallback.registry) THEN fallback.registry.fields
                          ELSE EmptyFields
             fingerprint == IF Truthy(props) THEN Inline_fingerprintProps(props) ELSE Null
             counterKey == CounterKeyOf(key, fingerprint)
             counters0 == IF Truthy(fallback.counters) THEN fallback.counters.m ELSE EmptyMap
             instanceNum == CounterGet(counters0, counterKey)
             instanceKey == InstanceKeyOf(counterKey, instanceNum)
             isInvalidated == /\ Truthy(fallback.invalidated)
                              /\ InvalidatedHas(fallback.invalidated, key)
             hit == ~isInvalidated /\ instanceKey \in DOMAIN registry0
             threw == ~hit /\ factory = "throws"
             fresh == Factory(args, fallback.callCount + 1)
         IN /\ ~hit => fallback.callCount < inputs.maxCalls
            /\ fallback' =
                 [fallback EXCEPT
                     !.pending = TRUE,
                     !.registry = Obj(IF ~hit /\ ~threw
                                      THEN Put(registry0, instanceKey, fresh)
                                      ELSE registry0),
                     !.counters = MapOf(Put(counters0, counterKey, instanceNum + 1)),
                     !.callCount = IF hit THEN @ ELSE @ + 1,
                     !.ret = [op |-> "persist", invoked |-> ~hit, threw |-> threw,
                              result |-> IF hit THEN registry0[instanceKey]
                                         ELSE IF threw THEN Undefined ELSE fresh]]

\* __hmr_checkStructure of the fallback
Inline__hmr_checkStructure(hot, structure) ==
    IF NoStore(hot)
    THEN fallback' = [fallback EXCEPT !.ret = [op |-> "checkStructure"]]
    ELSE LET prev == fallback.prevStructure
             changed == IF Truthy(prev)
                        THEN ChangedComponents(prev.fields, structure)
                        ELSE {}
             registry0 == IF Truthy(fallback.registry) THEN fallback.registry.fields
                          ELSE EmptyFields
         IN fallback' =
              [fallback EXCEPT
                  !.counters = MapOf(EmptyMap),
                  !.registry = IF changed /= {} /\ Truthy(fallback.registry)
                               THEN Obj(Without(registry0, KeysOfChanged(registry0, changed)))
                               ELSE @,
                  !.invalidated = IF ~Truthy(prev) THEN @
                                  ELSE IF changed /= {} THEN SetOf(changed) ELSE Null,
                  !.prevStructure = Obj(structure),
                  !.ret = [op |-> "checkStructure"]]

\* the microtask queued by the fallback's scheduleCursorReset runs
Inline_cursorReset ==
    /\ fallback.pending
    /\ fallback' = [fallback EXCEPT !.counters = MapOf(EmptyMap), !.pending = FALSE]
    /\ UNCHANGED <<runtimeVars, vite, inputs, transformVars>>

-----------------------------------------------------------------------------
RuntimeInit ==
    /\ registry = Undefined
    /\ prevStructure = Undefined
    /\ invalidated = Undefined
    /\ counters = Undefined
    /\ warned = Undefined
    /\ pendingResets = {}
    /\ microtasks = <<>>
    /\ callCount = 0
    /\ ret = [op |-> "init"]
    /\ batch = <<>>
    /\ prevBatch = <<>>
    /\ events = <<>>
    /\ prevEvents = <<>>
    /\ warnCount = EmptyMap
    /\ vite = [isDev |-> FALSE, transformIsDev |-> FALSE, command |-> Undefined,
               module |-> Undefined]
    /\ fallback = InlineStore

\* a run of the runtime: the store is new, no file is being compiled
InitWith(in) ==
    /\ RuntimeInit
    /\ inputs = in
    /\ state = Undefined
    /\ body = <<>>
    /\ visited = <<>>
    /\ pc = "idle"

Persist ==
    \E hot \in inputs.hots, key \in inputs.keys, factory \in inputs.factories,
       args \in inputs.args, props \in inputs.props :
        __hmr_persist(hot, key, factory, args, props) /\ UNCHANGED fallback

CheckStructure ==
    \E hot \in inputs.hots, structure \in inputs.structures :
        __hmr_checkStructure(hot, structure) /\ UNCHANGED fallback

Next == Persist \/ CheckStructure \/ cursorReset

Init == InitWith(LifecycleInputs)

Spec == Init /\ [][Next]_vars

\* the built runtime and the inline fallback run side by side: two call sites pass the
\* same id beside their call-site tokens, a third call passes no props
LockstepInputs ==
    [hots |-> {Hot, Undefined},
     keys |-> {KeyA0},
     factories |-> {"fresh"},
     args |-> {<<>>},
     props |-> {Undefined, PropsSiteId("site-a", Str("same")),
                PropsSiteId("site-b", Str("same"))},
     structures |-> {StructureA(1), StructureA(2)},
     devMode |-> TRUE,
     maxBatch |-> LifecycleMaxBatch,
     maxCalls |-> LockstepMaxCalls,
     maxChecks |-> LifecycleMaxChecks]

\* both runtimes have run the microtasks queued so far, or neither has
Synchronized == fallback.pending <=> (HotData \in pendingResets)

\* the same persist call is made on both runtimes
LockstepPersist ==
    \E hot \in inputs.hots, key \in inputs.keys, factory \in inputs.factories,
       args \in inputs.args, props \in inputs.props :
        /\ Synchronized
        /\ __hmr_persist(hot, key, factory, args, props)
        /\ Inline__hmr_persist(hot, key, factory, args, props)

\* the same checkStructure call is made on both runtimes
LockstepCheckStructure ==
    \E hot \in inputs.hots, structure \in inputs.structures :
        /\ Synchronized
        /\ __hmr_checkStructure(hot, structure)
        /\ Inline__hmr_checkStructure(hot, structure)

NextLockstep ==
    \/ LockstepPersist
    \/ LockstepCheckStructure
    \/ cursorReset
    \/ Inline_cursorReset

SpecLockstep == InitWith(LockstepInputs) /\ [][NextLockstep]_vars

\* one call site of unit A whose factory may raise, across reloads that change A's count
FailureInputs ==
    [hots |-> {Hot},
     keys |-> {KeyA0},
     factories |-> {"fresh", "throws"},
     args |-> {<<>>},
     props |-> {Undefined},
     structures |-> {StructureA(1), StructureA(2)},
     devMode |-> TRUE,
     maxBatch |-> LifecycleMaxBatch,
     maxCalls |-> FailureMaxCalls,
     maxChecks |-> LifecycleMaxChecks]

SpecFailure == InitWith(FailureInputs) /\ [][Next]_vars

\* an object literal: its fields in the order they are written
ObjectLiteral(names, values) ==
    [t |-> "object",
     fields |-> [f \in {names[i] : i \in DOMAIN names} |->
                    values[CHOOSE i \in DOMAIN names : names[i] = f]],
     keys |-> names]

\* external inputs without a call-site token and without a scalar id or key: the same
\* scalar fields written in two orders, without and with function- and object-valued
\* fields, another scalar value, and no scalar field at all
FingerprintInputs ==
    [hots |-> {Hot},
     keys |-> {KeyA0},
     factories |-> {"fresh"},
     args |-> {<<>>},
     props |-> {ObjectLiteral(<<"label", "size">>, <<Str("a"), Num(1)>>),
                ObjectLiteral(<<"size", "onClick", "label", "id">>,
                              <<Num(1), Func("onClick"), Str("a"), Obj(EmptyFields)>>),
                ObjectLiteral(<<"size", "label">>, <<Num(1), Str("b")>>),
                ObjectLiteral(<<"onClick", "key">>, <<Func("onClick"), Obj(EmptyFields)>>)},
     structures |-> {StructureA(1)},
     devMode |-> TRUE,
     maxBatch |-> LifecycleMaxBatch,
     maxCalls |-> FingerprintMaxCalls,
     maxChecks |-> LifecycleMaxChecks]

SpecFingerprint == InitWith(FingerprintInputs) /\ [][Next]_vars

\* keys and external inputs chosen to collide: a key that spells the CounterKey of
\* another call, identities that stringify alike, an identity that contains "::"
SlotInputs ==
    [hots |-> {Hot},
     keys |-> {KeyA0, KeyA0 \o "::fp:id=1"},
     factories |-> {"fresh"},
     args |-> {<<>>},
     props |-> {Undefined, PropsId(Num(1)), PropsId(Str("1")), PropsId(Str("1::0"))},
     structures |-> {StructureA(1)},
     devMode |-> TRUE,
     maxBatch |-> LifecycleMaxBatch,
     maxCalls |-> SlotMaxCalls,
     maxChecks |-> LifecycleMaxChecks]

SpecSlots == InitWith(SlotInputs) /\ [][Next]_vars

\* the host runs every queued microtask once the synchronous batch has returned
SpecFair == Init /\ [][Next]_vars /\ WF_vars(cursorReset)

SpecInstances == InitWith(InstancesInputs) /\ [][Next]_vars

SpecReorder == InitWith(ReorderInputs) /\ [][Next]_vars

SpecPassThrough == InitWith(PassThroughInputs) /\ [][Next]_vars

SpecSite == InitWith(SiteInputs) /\ [][Next]_vars

SpecStructure == InitWith(StructureInputs) /\ [][Next]_vars

SpecWarning == InitWith(WarningInputs) /\ [][Next]_vars

\* the host in either mode, the application calling the module it was served
ModeInputs ==
    [hots |-> {Hot, Undefined},
     keys |-> {KeyA0},
     factories |-> {"fresh"},
     args |-> {<<42>>},
     props |-> {Undefined},
     structures |-> {StructureA(1)},
     devMode |-> TRUE,
     maxBatch |-> LifecycleMaxBatch,
     maxCalls |-> ModeMaxCalls,
     maxChecks |-> LifecycleMaxChecks,
     options |-> [primitives |-> Undefined],
     commands |-> {"serve", "build"},
     ids |-> {VIRTUAL_MODULE_ID, RESOLVED_VIRTUAL_MODULE_ID, "/src/App.tsx",
              "/src/utils.ts", "/node_modules/some-lib/Component.tsx"},
     codes |-> {"function App() { createSignal(0); }", "function App() { return 1; }"}]

ConfigResolved == \E command \in inputs.commands : configResolved([command |-> command])

ResolveId == \E id \in inputs.ids : resolveId(id)

Load == \E id \in inputs.ids : load(id)

TransformFile == \E code \in inputs.codes, id \in inputs.ids : transform(code, id)

\* the application calls the entry points of the module the host served it
ModulePersist ==
    \E hot \in inputs.hots, key \in inputs.keys, factory \in inputs.factories,
       args \in inputs.args, props \in inputs.props :
        \/ /\ vite.module = Str(RUNTIME_CODE)
           /\ __hmr_persist(hot, key, factory, args, props)
           /\ UNCHANGED fallback
        \/ vite.module = Str(PROD_STUB) /\ Stub__hmr_persist(hot, key, factory, args, props)

ModuleCheckStructure ==
    \E hot \in inputs.hots, structure \in inputs.structures :
        \/ /\ vite.module = Str(RUNTIME_CODE)
           /\ __hmr_checkStructure(hot, structure)
           /\ UNCHANGED fallback
        \/ vite.module = Str(PROD_STUB) /\ Stub__hmr_checkStructure(hot, structure)

NextMode ==
    \/ ConfigResolved
    \/ ResolveId
    \/ Load
    \/ TransformFile
    \/ ModulePersist
    \/ ModuleCheckStructure
    \/ cursorReset

SpecMode == InitWith(ModeInputs) /\ [][NextMode]_vars

-----------------------------------------------------------------------------
(* Inputs and specifications of the source transform.                      *)

\* callees
Identifier(name) == [type |-> "Identifier", name |-> name]
Member(object, name) ==
    [type |-> "MemberExpression", object |-> Identifier(object),
     property |-> Identifier(name), computed |-> FALSE]

\* arguments
Literal == [type |-> "NumericLiteral"]
Spread == [type |-> "SpreadElement"]

\* function-like ancestors of a call: function Name(params) {}
FunctionDeclaration(name, params) ==
    [type |-> "FunctionDeclaration", id |-> name, params |-> params,
     parent |-> [type |-> "BlockStatement"]]
\* f(function Name(params) {}): the solid-refresh wrapping when Name is a unit
FunctionExpression(name, params) ==
    [type |-> "FunctionExpression", id |-> name, params |-> params,
     parent |-> [type |-> "CallExpression"]]
\* const Name = (params) => {}
BoundArrow(name, params) ==
    [type |-> "ArrowFunctionExpression", params |-> params,
     parent |-> [type |-> "VariableDeclarator", id |-> Identifier(name)]]
\* items.map((item) => {}): a callback
CallbackArrow ==
    [type |-> "ArrowFunctionExpression", params |-> <<Identifier("item")>>,
     parent |-> [type |-> "CallExpression"]]
\* { name() {} }, { get name() {} }, class { name() {} }
Method(type, kind) ==
    [type |-> type, kind |-> kind, key |-> Identifier("handler"), params |-> <<>>,
     parent |-> [type |-> IF type = "ObjectMethod" THEN "ObjectExpression" ELSE "ClassBody"]]

\* a call expression: callee(arguments) below the given ancestors, innermost first
Call(callee, arguments, scopes) ==
    [type |-> "CallExpression", callee |-> callee, arguments |-> arguments,
     scopes |-> scopes]

\* top-level statements of a source file, numbered in source order
ImportStatement(n) == [type |-> "ImportDeclaration", n |-> n, source |-> "solid-js"]
OtherStatement(n) == [type |-> "Statement", n |-> n]

PropsParam == <<Identifier("props")>>

\* the function-like ancestors the scope universe draws from
UnitScopes ==
    {FunctionDeclaration("App", <<>>), FunctionExpression("App", PropsParam),
     BoundArrow("App", <<>>)}
OrdinaryScopes ==
    {FunctionDeclaration("helper", <<>>), FunctionExpression("", <<>>),
     BoundArrow("useCounter", <<>>), CallbackArrow,
     Method("ObjectMethod", "method"), Method("ObjectMethod", "get"),
     Method("ClassMethod", "method"), Method("ClassMethod", "set")}

\* createSignal(0) at module scope, directly in a function, or one function deeper
ScopeInputs ==
    [options |-> [primitives |-> Undefined],
     filenames |-> {Str("/w/src/App.tsx")},
     bodies |-> {<<ImportStatement(1), OtherStatement(2)>>},
     calls |-> {Call(Identifier("createSignal"), <<Literal>>, scopes) :
                   scopes \in {<<>>}
                       \cup {<<s>> : s \in UnitScopes \cup OrdinaryScopes}
                       \cup {<<s, u>> : s \in UnitScopes \cup OrdinaryScopes,
                                        u \in UnitScopes \cup OrdinaryScopes}},
     maxVisits |-> ScopeMaxVisits]

\* calls of two units with every kind of callee and argument list
SummaryInputs ==
    [options |-> [primitives |-> ArrayOf(<<"createMyState">>)],
     filenames |-> {Str("/w/src/App.tsx"), Undefined},
     bodies |-> {<<ImportStatement(1), OtherStatement(2)>>, <<OtherStatement(1)>>},
     calls |-> {Call(callee, arguments, <<unit>>) :
                   callee \in {Identifier("createSignal"), Member("solid", "createStore"),
                               Identifier("createMyState")},
                   arguments \in {<<Literal>>, <<Spread>>},
                   unit \in {FunctionDeclaration("App", <<>>),
                             BoundArrow("Header", PropsParam),
                             FunctionDeclaration("helper", <<>>)}},
     maxVisits |-> SummaryMaxVisits]

\* a file with two units named App (a declaration and, in another scope, a bound arrow)
\* and a third unit; "signal" is configured as a primitive, so its category is the one
\* of createSignal; every call is written with and without spread arguments
SharedNameInputs ==
    [options |-> [primitives |-> ArrayOf(<<"signal">>)],
     filenames |-> {Str("/w/src/App.tsx")},
     bodies |-> {<<ImportStatement(1), OtherStatement(2)>>},
     calls |-> {Call(callee, arguments, <<unit>>) :
                   callee \in {Identifier("createSignal"), Identifier("signal"),
                               Member("solid", "createStore")},
                   arguments \in {<<Literal>>, <<Spread>>},
                   unit \in {FunctionDeclaration("App", <<>>),
                             BoundArrow("App", PropsParam),
                             FunctionDeclaration("Header", <<>>)}},
     maxVisits |-> SharedNameMaxVisits]

\* parameters that are no simple identifier: ({ a }), (props = {}), (...rest)
ObjectPattern == [type |-> "ObjectPattern"]
AssignmentPattern(name) == [type |-> "AssignmentPattern", left |-> Identifier(name)]
RestElement(name) == [type |-> "RestElement", argument |-> Identifier(name)]

\* the parameter lists of the units of the parameter universe
ParamLists ==
    {<<>>, <<Identifier("props")>>, <<Identifier("p"), Identifier("q")>>,
     <<ObjectPattern>>, <<ObjectPattern, Identifier("ctx")>>,
     <<AssignmentPattern("props")>>, <<RestElement("rest")>>}

\* one call directly in a unit of every kind with every parameter list
ParamsInputs ==
    [options |-> [primitives |-> Undefined],
     filenames |-> {Str("/w/src/App.tsx")},
     bodies |-> {<<ImportStatement(1), OtherStatement(2)>>},
     calls |-> {Call(Identifier("createSignal"), arguments, <<unit>>) :
                   arguments \in {<<Literal>>, <<Spread>>},
                   unit \in {FunctionDeclaration("Counter", params) : params \in ParamLists}
                         \cup {FunctionExpression("Counter", params) : params \in ParamLists}
                         \cup {BoundArrow("Counter", params) : params \in ParamLists}},
     maxVisits |-> ParamsMaxVisits]

\* callees that are no plain member access: solid["name"], solid[name], make()
LiteralMember(object, name) ==
    [type |-> "MemberExpression", object |-> Identifier(object),
     property |-> [type |-> "StringLiteral", value |-> name], computed |-> TRUE]
ComputedMember(object, name) ==
    [type |-> "MemberExpression", object |-> Identifier(object),
     property |-> Identifier(name), computed |-> TRUE]
CallResult(name) ==
    [type |-> "CallExpression", callee |-> Identifier(name), arguments |-> <<>>]

\* callee names: the defaults, a configured one, an unconfigured one, and names every
\* object has (count.toString(), obj.hasOwnProperty(k))
CalleeNames == {"createSignal", "createStore", "createMyState", "createMemo",
                "toString", "hasOwnProperty"}

\* calls directly in a unit with every callee shape and name
MatchInputs ==
    [options |-> [primitives |-> ArrayOf(<<"createMyState">>)],
     filenames |-> {Str("/w/src/App.tsx")},
     bodies |-> {<<ImportStatement(1), OtherStatement(2)>>},
     calls |-> {Call(callee, <<Literal>>, <<FunctionDeclaration("App", <<>>)>>) :
                   callee \in {Identifier(n) : n \in CalleeNames}
                           \cup {Member("solid", n) : n \in CalleeNames}
                           \cup {LiteralMember("solid", "createSignal"),
                                 ComputedMember("solid", "createSignal"),
                                 CallResult("createSignal")}},
     maxVisits |-> MatchMaxVisits]

\* source files with their imports first, with none, and with an import that follows
\* a definition (import declarations may stand anywhere at the top level)
Arrangements ==
    {<<ImportStatement(1), OtherStatement(2)>>,
     <<ImportStatement(1), ImportStatement(2), OtherStatement(3), OtherStatement(4)>>,
     <<OtherStatement(1), OtherStatement(2)>>,
     <<OtherStatement(1), ImportStatement(2)>>,
     <<ImportStatement(1), OtherStatement(2), ImportStatement(3), OtherStatement(4)>>}

\* calls of two units in every arrangement of imports and definitions
ArrangementInputs ==
    [options |-> [primitives |-> Undefined],
     filenames |-> {Str("/w/src/App.tsx")},
     bodies |-> Arrangements,
     calls |-> {Call(Identifier("createSignal"), <<Literal>>, <<unit>>) :
                   unit \in {FunctionDeclaration("Header", <<>>),
                             FunctionDeclaration("Footer", <<>>),
                             FunctionDeclaration("helper", <<>>)}},
     maxVisits |-> ArrangementMaxVisits]

\* a file-compilation pass about to start: the plugin state before Program.enter
InitTransform(in) ==
    /\ RuntimeInit
    /\ inputs = in
    /\ \E f \in in.filenames :
          state = [filename |-> f, file |-> [opts |-> [filename |-> f]],
                   hasInjectedImport |-> Undefined, counters |-> Undefined,
                   componentPrimitiveCounts |-> Undefined]
    /\ body \in in.bodies
    /\ visited = <<>>
    /\ pc = "enter"

\* the traversal reaches the next call expression, in the same top-level statement as
\* the one before or in a later one
Traverse ==
    \E call \in inputs.calls, at \in 1..Len(body) :
        /\ \E i \in DOMAIN body : body[i].n = at /\ body[i].type /= "ImportDeclaration"
        /\ visited /= <<>> => at >= visited[Len(visited)].at
        /\ CallExpression(call, at)

NextTransform == ProgramEnter \/ Traverse \/ ProgramExit

SpecScopes == InitTransform(ScopeInputs) /\ [][NextTransform]_vars

SpecSummary == InitTransform(SummaryInputs) /\ [][NextTransform]_vars

SpecParams == InitTransform(ParamsInputs) /\ [][NextTransform]_vars

SpecMatch == InitTransform(MatchInputs) /\ [][NextTransform]_vars

SpecArrangement == InitTransform(ArrangementInputs) /\ [][NextTransform]_vars

SpecSharedName == InitTransform(SharedNameInputs) /\ [][NextTransform]_vars

-----------------------------------------------------------------------------
(* Vocabulary of the properties, stated on the observations.               *)

\* the unit a PersistKey of the input universe names
UnitOf(key) ==
    CHOOSE u \in Units :
        \E c \in {"signal", "store"}, i \in 0..1 : key = PersistKey("f", u, c, i)

\* the Registry keys (InstanceKeys) that belong to unit u
EntriesOf(u) ==
    IF registry = Undefined THEN {}
    ELSE {k \in DOMAIN registry.fields :
            \E pk \in inputs.keys : UnitOf(pk) = u /\ StartsWith(k, pk \o "::")}

\* the calls of cycle b made for unit u, in call order
RECURSIVE CallsOf(_, _)
CallsOf(b, u) ==
    IF b = <<>> THEN <<>>
    ELSE IF UnitOf(Head(b).key) = u THEN <<Head(b)>> \o CallsOf(Tail(b), u)
    ELSE CallsOf(Tail(b), u)

\* cycle b repeats, call for call, the first calls of cycle a (same keys, same
\* external inputs, same relative order)
Repeats(b, a) ==
    /\ Len(b) <= Len(a)
    /\ \A i \in DOMAIN b : b[i].key = a[i].key /\ b[i].props = a[i].props

\* every call of b got back the value of the call at its position in a, and no
\* factory ran
RestoredFrom(b, a) ==
    \A i \in DOMAIN b : b[i].result = a[i].result /\ ~b[i].invoked

IsCheck(e) == e.op = "checkStructure"
ChecksOf(evs) == {evs[i] : i \in {j \in DOMAIN evs : IsCheck(evs[j])}}
\* the units some checkStructure call among evs found changed
DriftedIn(evs) == UNION {e.drift.units : e \in ChecksOf(evs)}
\* evs holds a checkStructure call, and every one in it compared equal to the snapshot
UnchangedReload(evs) ==
    /\ ChecksOf(evs) /= {}
    /\ \A e \in ChecksOf(evs) : ~e.drift.first /\ e.drift.units = {}
\* evs holds the deferred reset and no checkStructure call
OnlyDeferredReset(evs) == evs /= <<>> /\ ChecksOf(evs) = {}

-----------------------------------------------------------------------------
(* C1: cross-cycle identity.  When the only checkStructure calls between    *)
(* the previous cycle and this one compared equal to the snapshot, a call  *)
(* at the same call-order position as in the previous cycle returns the    *)
(* value returned there, and its factory is not invoked.                   *)
C1_CrossCycleIdentity ==
    (UnchangedReload(events) /\ Repeats(batch, prevBatch))
        => RestoredFrom(batch, prevBatch)

\* a value created in one cycle has come back after an unchanged checkStructure
C1_Witness ==
    /\ UnchangedReload(events)
    /\ batch /= <<>>
    /\ Repeats(batch, prevBatch)
    /\ prevBatch[1].invoked
    /\ batch[1].result = prevBatch[1].result
    /\ ~batch[1].invoked

(* C2: positional restore of multiple instances.  After an unchanged       *)
(* checkStructure, n calls with one CounterKey return the n values the     *)
(* previous cycle's calls with that CounterKey returned, in the same       *)
(* order, with zero factory invocations.                                   *)
C2_PositionalRestore ==
    (/\ UnchangedReload(events)
     /\ Len(batch) <= Len(prevBatch)
     /\ \A i \in DOMAIN batch : batch[i].counterKey = prevBatch[1].counterKey
     /\ \A i \in DOMAIN prevBatch : prevBatch[i].counterKey = prevBatch[1].counterKey)
        => /\ [i \in DOMAIN batch |-> batch[i].result]
                = SubSeq([i \in DOMAIN prevBatch |-> prevBatch[i].result], 1, Len(batch))
           /\ Cardinality({i \in DOMAIN batch : batch[i].invoked}) = 0

\* three instances created in one cycle are back, in order, in the next
C2_Witness ==
    /\ UnchangedReload(events)
    /\ Len(batch) = 3
    /\ Len(prevBatch) = 3
    /\ \A i \in 1..3 : /\ batch[i].counterKey = prevBatch[1].counterKey
                        /\ prevBatch[i].counterKey = prevBatch[1].counterKey
                        /\ prevBatch[i].invoked
                        /\ batch[i].result = prevBatch[i].result
    /\ Cardinality({prevBatch[i].result : i \in 1..3}) = 3

\* the calls of the cycle before position i that share call i's CounterKey
EarlierSame(b, i) == {j \in 1..(i - 1) : b[j].counterKey = b[i].counterKey}

(* C3: within one cycle the i-th call with a given CounterKey is assigned  *)
(* instance number i-1; on a store with no earlier persist call, n calls   *)
(* with one CounterKey invoke the factory n times and occupy n distinct    *)
(* InstanceKeys holding n distinct values.                                 *)
C3_InstanceNumbering ==
    /\ \A i \in DOMAIN batch : batch[i].instanceNum = Cardinality(EarlierSame(batch, i))
    /\ (prevBatch = <<>> /\ batch /= <<>>) =>
           /\ \A i \in DOMAIN batch :
                 /\ batch[i].invoked
                 /\ batch[i].instanceKey \in DOMAIN registry.fields
                 /\ registry.fields[batch[i].instanceKey] = batch[i].result
           /\ Cardinality({batch[i].instanceKey : i \in DOMAIN batch}) = Len(batch)
           /\ Cardinality({batch[i].result : i \in DOMAIN batch}) = Len(batch)
           /\ Cardinality(DOMAIN registry.fields) = Len(batch)

\* three calls with one CounterKey in the first cycle of a store
C3_Witness ==
    /\ prevBatch = <<>>
    /\ Len(batch) = 3
    /\ \A i \in 1..3 : batch[i].counterKey = batch[1].counterKey
    /\ batch[3].instanceNum = 2

\* exactly one checkStructure call since the previous cycle, and it found a change
OneChangedReload(evs) ==
    /\ Cardinality({i \in DOMAIN evs : IsCheck(evs[i])}) = 1
    /\ DriftedIn(evs) /= {}

StoredValues(reg) == IF reg = Undefined THEN {} ELSE {reg.fields[k] : k \in DOMAIN reg.fields}

(* C5: a persist call whose unit is in the InvalidatedSet invokes the      *)
(* factory, stores the result under its InstanceKey (overwriting) and      *)
(* returns that fresh result, never a value that was stored before.        *)
C5_InvalidationForcesRecreation ==
    [][(/\ Len(batch') = Len(batch) + 1
        /\ invalidated.t = "set"
        /\ UnitOf(ret'.key) \in invalidated.s)
       => /\ ret'.invoked
          /\ ret'.result \notin StoredValues(registry)
          /\ registry'.fields[batch'[Len(batch')].instanceKey] = ret'.result]_vars

\* a call of an invalidated unit has overwritten the entry of the cycle before
C5_Witness ==
    /\ batch /= <<>>
    /\ invalidated.t = "set"
    /\ UnitOf(ret.key) \in invalidated.s
    /\ ret.op = "persist"
    /\ ret.invoked
    /\ \E i \in DOMAIN prevBatch :
          /\ prevBatch[i].instanceKey = batch[Len(batch)].instanceKey
          /\ prevBatch[i].invoked
          /\ prevBatch[i].result /= ret.result
    /\ OnlyDeferredReset(events)

\* field f of external input p holds a scalar
ScalarField(p, f) ==
    /\ p.t = "object"
    /\ f \in DOMAIN p.fields
    /\ p.fields[f].t \in {"string", "number", "boolean", "null", "undefined"}

\* p and q carry distinct scalar values in their id field, or in their key field
DistinctIdentity(p, q) ==
    \E f \in {"id", "key"} :
        ScalarField(p, f) /\ ScalarField(q, f) /\ p.fields[f] /= q.fields[f]

(* C6: reorder resilience via explicit identity.  Two instances X, Y of    *)
(* one call site whose id (or key) values are distinct scalars, persisted  *)
(* in order (X, Y) and, after an unchanged checkStructure, in order        *)
(* (Y, X), each get back their own value and no factory is invoked.        *)
C6_ReorderResilience ==
    (/\ UnchangedReload(events)
     /\ Len(prevBatch) = 2
     /\ prevBatch[1].key = prevBatch[2].key
     /\ DistinctIdentity(prevBatch[1].props, prevBatch[2].props)
     /\ Len(batch) <= 2
     /\ \A i \in DOMAIN batch : /\ batch[i].key = prevBatch[3 - i].key
                                /\ batch[i].props = prevBatch[3 - i].props)
        => \A i \in DOMAIN batch : /\ batch[i].result = prevBatch[3 - i].result
                                   /\ ~batch[i].invoked

\* the checkStructure call in evs that came last
LastCheck(evs) ==
    evs[CHOOSE i \in DOMAIN evs :
            IsCheck(evs[i]) /\ \A j \in DOMAIN evs : IsCheck(evs[j]) => j <= i]
\* the units invalidated for the cycle that evs opened
InvalidatedBy(evs) == IF ChecksOf(evs) = {} THEN {} ELSE LastCheck(evs).drift.units

(* C7: ancestor-triggered re-render.  When only the deferred counter reset *)
(* (no checkStructure call) separates the previous cycle from this one,    *)
(* calls made in the same relative order return the values of the previous *)
(* cycle and no factory is invoked.                                        *)
C7_AncestorRerender ==
    (OnlyDeferredReset(events) /\ Repeats(batch, prevBatch))
        => RestoredFrom(batch, prevBatch)

(* C8: invalidation lasts one cycle.  When the previous cycle was opened   *)
(* by a checkStructure call that invalidated unit A, and only the deferred *)
(* reset separates it from this cycle, A's calls made in the same order    *)
(* return the values recreated in the previous cycle and no factory of A   *)
(* is invoked.                                                             *)
C8_InvalidationLastsOneCycle ==
    OnlyDeferredReset(events) =>
        \A u \in InvalidatedBy(prevEvents) :
            Repeats(CallsOf(batch, u), CallsOf(prevBatch, u))
                => RestoredFrom(CallsOf(batch, u), CallsOf(prevBatch, u))

(* C9: recovery after a structural reset.  When the previous cycle was     *)
(* opened by a checkStructure call that invalidated unit A, and every      *)
(* checkStructure call since then compared equal to the snapshot, the      *)
(* InvalidatedSet is the no-invalidation marker and A's calls made in the  *)
(* same order return the values of the previous cycle with no factory      *)
(* invocation.                                                             *)
C9_RecoveryAfterReset ==
    (InvalidatedBy(prevEvents) /= {} /\ UnchangedReload(events)) =>
        /\ invalidated = Null
        /\ \A u \in InvalidatedBy(prevEvents) :
              Repeats(CallsOf(batch, u), CallsOf(prevBatch, u))
                  => RestoredFrom(CallsOf(batch, u), CallsOf(prevBatch, u))

\* a value recreated under invalidation has come back after an unchanged checkStructure
C9_Witness ==
    /\ "A" \in InvalidatedBy(prevEvents)
    /\ UnchangedReload(events)
    /\ CallsOf(batch, "A") /= <<>>
    /\ Repeats(CallsOf(batch, "A"), CallsOf(prevBatch, "A"))
    /\ CallsOf(prevBatch, "A")[1].invoked
    /\ CallsOf(batch, "A")[1].result = CallsOf(prevBatch, "A")[1].result
    /\ ~CallsOf(batch, "A")[1].invoked

(* C10: pass-through mode.  A persist call without a store handle invokes  *)
(* the factory once, with the given arguments, and returns its result;     *)
(* neither it nor a checkStructure call without a store changes the        *)
(* registry, the counters, the snapshot, the invalidation state or the     *)
(* warned set, and neither schedules a reset.                              *)
C10_PassThrough ==
    [][(ret'.op \in {"persist", "checkStructure"} /\ ret'.hot \in {Null, Undefined})
       => /\ UNCHANGED <<registry, prevStructure, invalidated, counters, warned,
                         pendingResets, microtasks, batch, prevBatch>>
          /\ ret'.op = "persist" =>
                /\ callCount' = callCount + 1
                /\ ret'.invoked
                /\ ret'.result.ref = callCount'
                /\ ret'.result.args = ret'.args
          /\ ret'.op = "checkStructure" => callCount' = callCount]_vars

\* a pass-through call with arguments, made while the store holds state and a reset is pending
C10_Witness ==
    /\ ret.op = "persist"
    /\ ret.hot = Undefined
    /\ ret.args = <<42>>
    /\ ret.result.args = <<42>>
    /\ registry /= Undefined
    /\ pendingResets /= {}
    /\ batch /= <<>>

\* the calls observed in the current and the previous cycle
ObservedCalls == {batch[i] : i \in DOMAIN batch} \cup {prevBatch[i] : i \in DOMAIN prevBatch}

\* external input p carries a scalar call-site token and a scalar id or key
SiteAndIdentity(p) ==
    ScalarField(p, "__hmrSite") /\ (ScalarField(p, "id") \/ ScalarField(p, "key"))

\* the fingerprint the explicit identity field of p gives: id first, then key
IdentityFingerprint(p) ==
    IF ScalarField(p, "id") THEN "id=" \o TemplateString(p.fields["id"])
    ELSE "key=" \o TemplateString(p.fields["key"])

DistinctSite(p, q) ==
    /\ ScalarField(p, "__hmrSite") /\ ScalarField(q, "__hmrSite")
    /\ p.fields["__hmrSite"] /= q.fields["__hmrSite"]
    /\ \A f \in {"id", "key"} :
          /\ f \in DOMAIN p.fields <=> f \in DOMAIN q.fields
          /\ f \in DOMAIN p.fields => p.fields[f] = q.fields[f]

(* C12: the call-site token distinguishes instances.  Two instances of one *)
(* call site with equal id and key and distinct call-site tokens,          *)
(* persisted in order (A, B) and, after an unchanged checkStructure, in    *)
(* order (B, A), each get back their own value and no factory is invoked.  *)
C12_SiteDistinguishes ==
    (/\ UnchangedReload(events)
     /\ Len(prevBatch) = 2
     /\ prevBatch[1].key = prevBatch[2].key
     /\ DistinctSite(prevBatch[1].props, prevBatch[2].props)
     /\ Len(batch) <= 2
     /\ \A i \in DOMAIN batch : /\ batch[i].key = prevBatch[3 - i].key
                                /\ batch[i].props = prevBatch[3 - i].props)
        => \A i \in DOMAIN batch : /\ batch[i].result = prevBatch[3 - i].result
                                   /\ ~batch[i].invoked

\* both instances are back, each with its own value, after the order was reversed
C12_Witness ==
    /\ UnchangedReload(events)
    /\ Len(prevBatch) = 2
    /\ Len(batch) = 2
    /\ DistinctSite(prevBatch[1].props, prevBatch[2].props)
    /\ ScalarField(prevBatch[1].props, "id")
    /\ prevBatch[1].invoked /\ prevBatch[2].invoked
    /\ batch[1].props = prevBatch[2].props /\ batch[2].props = prevBatch[1].props
    /\ batch[1].result = prevBatch[2].result /\ batch[2].result = prevBatch[1].result
    /\ batch[1].result /= batch[2].result

\* the unit names an InvalidatedSet value holds (none for the no-invalidation marker)
InvalidatedUnits(inv) == IF inv.t = "set" THEN inv.s ELSE {}

\* the step is a checkStructure call on the store
ChecksStore == ret'.op = "checkStructure" /\ ret'.hot = Hot

(* C13: change detection.  A checkStructure call that finds a previous     *)
(* snapshot sets the InvalidatedSet, and the unit names in it are exactly  *)
(* those the snapshot and the summary do not map to the same count: the    *)
(* names present in only one of the two and the names whose counts differ. *)
C13_ChangeDetection ==
    [][(ChecksStore /\ prevStructure /= Undefined)
       => /\ invalidated' /= Undefined
          /\ InvalidatedUnits(invalidated') = Drift(prevStructure, ret'.structure).units]_vars

\* one call found a unit removed and another added
C13_Witness ==
    /\ ret.op = "checkStructure"
    /\ ret.structure = StructureB(1)
    /\ invalidated = SetOf({"A", "B"})
    /\ LastCheck(events).drift.units = {"A", "B"}

(* C14: first load.  A checkStructure call on a store with no previous     *)
(* snapshot stores the summary as the snapshot, leaves the InvalidatedSet  *)
(* uninitialized and leaves the Registry as it was.                        *)
C14_FirstLoad ==
    [][(ChecksStore /\ prevStructure = Undefined)
       => /\ prevStructure' = Obj(ret'.structure)
          /\ invalidated = Undefined
          /\ invalidated' = Undefined
          /\ registry' = registry]_vars

\* the first checkStructure call of a store that already holds entries
C14_Witness ==
    /\ ret.op = "checkStructure"
    /\ ret.hot = Hot
    /\ ChecksIn(events) + ChecksIn(prevEvents) = 1
    /\ LastCheck(events).drift.first
    /\ registry /= Undefined
    /\ Cardinality(DOMAIN registry.fields) = 2
    /\ invalidated = Undefined
    /\ prevStructure = Obj(ret.structure)

\* the values the calls of cycle b returned
ResultsOf(b) == {b[i].result : i \in DOMAIN b}

(* C15: instance-count drift.  When cycle N made m calls with a CounterKey *)
(* and, after an unchanged checkStructure, cycle N+1 makes n: the first    *)
(* min(m, n) calls return the values of cycle N in order with no factory   *)
(* invocation, every call beyond m invokes the factory and stores a fresh  *)
(* value, and the entries of cycle N stay in the Registry.                 *)
C15_InstanceCountDrift ==
    (/\ UnchangedReload(events)
     /\ prevBatch /= <<>>
     /\ \A i \in DOMAIN batch : batch[i].counterKey = prevBatch[1].counterKey
     /\ \A i \in DOMAIN prevBatch : prevBatch[i].counterKey = prevBatch[1].counterKey)
        => /\ \A i \in DOMAIN batch :
                 IF i <= Len(prevBatch)
                 THEN batch[i].result = prevBatch[i].result /\ ~batch[i].invoked
                 ELSE /\ batch[i].invoked
                      /\ batch[i].result \notin ResultsOf(prevBatch)
                      /\ registry.fields[batch[i].instanceKey] = batch[i].result
           /\ \A j \in DOMAIN prevBatch :
                 /\ prevBatch[j].instanceKey \in DOMAIN registry.fields
                 /\ registry.fields[prevBatch[j].instanceKey] = prevBatch[j].result

\* external input p has no scalar field at all: it yields no fingerprint
NoScalarField(p) == p.t /= "object" \/ \A f \in DOMAIN p.fields : ~ScalarField(p, f)

\* the identity of p rests on its position alone: no fingerprint, or a call-site
\* token with no scalar id or key beside it
PositionalOnly(p) ==
    \/ NoScalarField(p)
    \/ ScalarField(p, "__hmrSite") /\ ~ScalarField(p, "id") /\ ~ScalarField(p, "key")

\* the step is a persist call on the store
PersistsStore == ret'.op = "persist" /\ ret'.hot = Hot

(* C16: deduplicated ambiguity warning.  With diagnostics enabled, a       *)
(* persist call emits the warning exactly when it assigns a nonzero        *)
(* instance number, the identity of its input rests on position alone and  *)
(* no warning was emitted for its CounterKey before; over the whole life   *)
(* of the store no CounterKey is warned about twice.                       *)
C16_DeduplicatedWarning ==
    [][/\ (PersistsStore /\ inputs.devMode) =>
             LET c == batch'[Len(batch')] IN
             (ret'.warnings /= {}) <=> /\ c.instanceNum > 0
                                       /\ PositionalOnly(c.props)
                                       /\ CounterGet(warnCount, c.counterKey) = 0
       /\ \A k \in DOMAIN warnCount' : warnCount'[k] <= 1]_vars

\* a duplicate created under invalidation, in a later cycle than the warning, is not
\* warned about again
C16_Witness ==
    /\ ret.op = "persist"
    /\ Len(batch) = 2
    /\ batch[2].instanceNum = 1
    /\ PositionalOnly(batch[2].props)
    /\ CounterGet(warnCount, batch[2].counterKey) = 1
    /\ ret.warnings = {}
    /\ ret.invoked
    /\ invalidated.t = "set"
    /\ prevBatch /= <<>>

(* C17: every positional match of duplicates is diagnosed.  With           *)
(* diagnostics enabled, whenever a persist call was assigned a nonzero     *)
(* instance number, an ambiguity warning for its CounterKey has been       *)
(* emitted by the time the call returned, and the call returned a value.   *)
C17_DuplicatesDiagnosed ==
    inputs.devMode =>
        \A i \in DOMAIN batch :
            batch[i].instanceNum > 0 =>
                /\ CounterGet(warnCount, batch[i].counterKey) >= 1
                /\ batch[i].result /= Undefined

-----------------------------------------------------------------------------
(* Vocabulary of the properties of the source transform.                   *)

\* the call expressions visited so far, with their outcome
Visits == {visited[i] : i \in DOMAIN visited}

\* the scope kinds the resolution walks through
IsFunctionScope(s) ==
    s.type \in {"FunctionDeclaration", "FunctionExpression", "ArrowFunctionExpression"}

\* a rendering unit: a function named with an initial uppercase letter, or an arrow
\* bound to an uppercase-named variable
Qualifies(s) ==
    IF s.type \in {"FunctionDeclaration", "FunctionExpression"}
    THEN StartsUpperCase(s.id)
    ELSE /\ s.type = "ArrowFunctionExpression"
         /\ s.parent.type = "VariableDeclarator"
         /\ StartsUpperCase(s.parent.id.name)

UnitName(s) == IF s.type = "ArrowFunctionExpression" THEN s.parent.id.name ELSE s.id

\* the unit a call below the given ancestors belongs to: the first qualifying scope
\* met walking outward, unless a non-qualifying function scope is met before it
Resolution(scopes) ==
    LET walked == SelectSeq(scopes, IsFunctionScope)
        hits == {i \in DOMAIN walked : Qualifies(walked[i])}
    IN IF hits = {} THEN Null
       ELSE LET first == CHOOSE i \in hits : \A j \in hits : i <= j IN
            IF \E j \in 1..(first - 1) : ~Qualifies(walked[j]) THEN Null
            ELSE Str(UnitName(walked[first]))

(* C18: enclosing-unit resolution.  Walking outward through function       *)
(* declarations, function expressions and arrow functions, a state-        *)
(* creating call belongs to the first qualifying scope unless a            *)
(* non-qualifying one is crossed before it; a call that resolves is        *)
(* rewritten under that unit's name, and a call that does not (helper,     *)
(* callback, module scope) is left as it was.                              *)
C18_EnclosingUnitResolution ==
    \A k \in DOMAIN visited :
        LET v == visited[k]
            unit == Resolution(v.call.scopes)
            earlier == {j \in 1..(k - 1) : visited[j].component = unit}
        IN /\ v.component = unit
           /\ IF unit = Null
              THEN ~v.rewritten /\ ~v.counted /\ v.node = v.call
              ELSE /\ v.rewritten
                   /\ v.node.callee.name = "__hmr_persist"
                   /\ v.node.arguments[2]
                         = Str(PersistKey("src/App.tsx", unit.s, "signal",
                                          Cardinality(earlier)))

\* a call directly in a unit that is nested in a helper was rewritten, and a call in
\* a helper nested in a unit was left alone
C18_Witness ==
    /\ Len(visited) = 2
    /\ visited[1].call.scopes
           = <<BoundArrow("App", <<>>), FunctionDeclaration("helper", <<>>)>>
    /\ visited[1].rewritten
    /\ visited[1].component = Str("App")
    /\ visited[2].call.scopes
           = <<FunctionDeclaration("helper", <<>>), BoundArrow("App", <<>>)>>
    /\ ~visited[2].rewritten

\* the call sits directly in a function that is no rendering unit, inside a unit
NestedInUnit(scopes) ==
    /\ Len(scopes) >= 2
    /\ ~Qualifies(scopes[1])
    /\ \E i \in 2..Len(scopes) : Qualifies(scopes[i])

(* C19: a state-creating call inside a nested function within a rendering *)
(* unit, whatever the kind of that function (callback arrow, function      *)
(* expression, nested declaration, object or class method, getter or       *)
(* setter), is never rewritten and never counted in the summary.           *)
C19_NestedFunctionsSkipped ==
    \A v \in Visits :
        NestedInUnit(v.call.scopes) => ~v.rewritten /\ ~v.counted

\* the summary the structure-check statement of the emitted file carries
EmittedSummary ==
    LET checks == {i \in DOMAIN body : body[i].type = "ExpressionStatement"} IN
    IF checks = {} THEN EmptyMap ELSE body[CHOOSE i \in checks : TRUE].arguments[2]

\* the calls of unit u that were rewritten into persistence calls
RewrittenIn(u) == {i \in DOMAIN visited : visited[i].rewritten /\ visited[i].component = Str(u)}

(* C20: when the pass is over, the emitted structural summary maps each    *)
(* unit name to exactly the number of calls of that unit that were         *)
(* rewritten into persistence calls, and names every unit that has one.    *)
C20_SummaryCountsRewritten ==
    pc = "done" =>
        /\ \A u \in DOMAIN EmittedSummary :
              EmittedSummary[u] = Cardinality(RewrittenIn(u))
        /\ \A v \in Visits : v.rewritten => v.component.s \in DOMAIN EmittedSummary

\* the step visits one more call expression
VisitStep == Len(visited') = Len(visited) + 1
\* the outcome of the call expression visited by the step
Visited == visited'[Len(visited')]

(* C21: a call with spread arguments is a silent skip.  The visit leaves   *)
(* the call as it was, consumes no call-order index, adds nothing to the   *)
(* per-unit counts, and changes no top-level statement of the file (no     *)
(* runtime import is injected on its account), so that a file whose only   *)
(* matching calls use spread arguments is emitted untouched.               *)
C21_SpreadIsSilentSkip ==
    [][VisitStep /\ HasSpread(Visited.call.arguments) =>
          /\ ~Visited.rewritten
          /\ Visited.node = Visited.call
          /\ state'.counters = state.counters
          /\ state'.componentPrimitiveCounts = state.componentPrimitiveCounts
          /\ state'.hasInjectedImport = state.hasInjectedImport
          /\ body' = body]_vars

\* the primitive category of a matched call: the built-in one, or the name itself
CategoryOf(name) ==
    IF name = "createSignal" THEN "signal"
    ELSE IF name = "createStore" THEN "store"
    ELSE name

\* the rewritten calls before the k-th visit with its unit and its category
RewrittenBefore(k) ==
    {j \in 1..(k - 1) :
        /\ visited[j].rewritten
        /\ visited[j].component = visited[k].component
        /\ CategoryOf(visited[j].primitiveName.s) = CategoryOf(visited[k].primitiveName.s)}

\* the file name keys are built from
KeyFile == "src/App.tsx"

(* C22: key assignment.  Within one pass the calls rewritten for one       *)
(* (unit name, primitive category) carry the indices 0, 1, 2, ... in       *)
(* source order with no gaps, independently of other units and             *)
(* categories, and each key is '<file>::<unitName>::<category>::<index>'.  *)
C22_ConsecutiveIndices ==
    \A k \in DOMAIN visited :
        (visited[k].rewritten /\ state.filename = Str(KeyFile)) =>
            visited[k].node.arguments[2]
                = Str(PersistKey(KeyFile, visited[k].component.s,
                                 CategoryOf(visited[k].primitiveName.s),
                                 Cardinality(RewrittenBefore(k))))

\* the same, in a file none of whose visited calls uses spread arguments
C22_ConsecutiveWithoutSpread ==
    (\A j \in DOMAIN visited : ~HasSpread(visited[j].call.arguments)) =>
        C22_ConsecutiveIndices

\* the unit the call of a visit sits directly in
UnitOfVisit(v) == v.call.scopes[1]

\* the first declared parameter of the function is a simple identifier
FirstParamIsName(fn) == fn.params /= <<>> /\ fn.params[1].type = "Identifier"

(* C23: the external-input argument.  A persistence call carries a fifth   *)
(* argument exactly when the first declared parameter of the enclosing     *)
(* unit is a simple identifier, and the argument is then that parameter's  *)
(* name; a unit with no parameter, or with a destructured, defaulted or    *)
(* rest first parameter, gets a four-argument call.                        *)
C23_PropsArgument ==
    \A v \in Visits :
        v.rewritten =>
            IF FirstParamIsName(UnitOfVisit(v))
            THEN /\ Len(v.node.arguments) = 5
                 /\ v.node.arguments[5] = Identifier(UnitOfVisit(v).params[1].name)
            ELSE Len(v.node.arguments) = 4

\* a unit with two named parameters passed its first one on, and a unit whose first
\* parameter is destructured passed nothing although its second one is a name
C23_Witness ==
    /\ Len(visited) = 2
    /\ UnitOfVisit(visited[1]).params = <<Identifier("p"), Identifier("q")>>
    /\ visited[1].rewritten
    /\ visited[1].node.arguments[5] = Identifier("p")
    /\ UnitOfVisit(visited[2]).params = <<ObjectPattern, Identifier("ctx")>>
    /\ visited[2].rewritten
    /\ Len(visited[2].node.arguments) = 4

\* the primitive names in force: the built-in defaults and the configured ones
Defaults == {"createSignal", "createStore"}
Configured ==
    IF inputs.options.primitives = Undefined THEN {}
    ELSE {inputs.options.primitives.items[i] : i \in DOMAIN inputs.options.primitives.items}

\* the name a callee is matched by: a bare identifier, or the identifier that is the
\* final property of a member access
CalleeName(callee) ==
    IF callee.type = "Identifier" THEN Str(callee.name)
    ELSE IF callee.type = "MemberExpression" /\ callee.property.type = "Identifier"
    THEN Str(callee.property.name)
    ELSE Null

(* C24: primitive matching.  A call qualifies exactly when its callee is a *)
(* bare identifier, or a member access whose final property is an          *)
(* identifier, and that name is one of the built-in defaults               *)
(* (createSignal, createStore) or one of the configured primitives;        *)
(* configuring primitives removes no default.                              *)
C24_PrimitiveMatching ==
    \A v \in Visits :
        LET name == CalleeName(v.call.callee)
            qualifies == name /= Null /\ name.s \in Defaults \cup Configured
        IN /\ (v.primitiveName /= Null) <=> qualifies
           /\ qualifies => v.primitiveName = name /\ v.rewritten

\* the same, for callees not named like a member of Object.prototype
C24_MatchingOfOwnNames ==
    \A v \in Visits :
        LET name == CalleeName(v.call.callee)
            qualifies == name /= Null /\ name.s \in Defaults \cup Configured
        IN (name = Null \/ name.s \notin ObjectPrototypeKeys) =>
               /\ (v.primitiveName /= Null) <=> qualifies
               /\ qualifies => v.primitiveName = name /\ v.rewritten

\* positions of the emitted top-level statements
RuntimeImportsAt == {i \in DOMAIN body : body[i] = RuntimeImport}
StructureChecksAt ==
    {i \in DOMAIN body :
        body[i].type = "ExpressionStatement" /\ body[i].callee = "__hmr_checkStructure"}
ImportsAt == {i \in DOMAIN body : body[i].type = "ImportDeclaration"}
\* the statements that define a unit with a rewritten call
UnitDefinitionsAt ==
    {i \in DOMAIN body : \E v \in Visits : v.rewritten /\ body[i].n = v.at}

\* a pass that has ended and rewrote at least one call
RewroteSome == pc = "done" /\ \E v \in Visits : v.rewritten

\* one import and one structure check, the check right after the last import
EmittedOnce ==
    /\ Cardinality(RuntimeImportsAt) = 1
    /\ Cardinality(StructureChecksAt) = 1
    /\ \A c \in StructureChecksAt :
          /\ \A i \in ImportsAt : i < c
          /\ c > 1 => (c - 1) \in ImportsAt

(* C25: summary and import emission.  A file in which at least one call    *)
(* was rewritten gets exactly one runtime import and exactly one           *)
(* structure-check call; the check sits immediately after the last import  *)
(* declaration and precedes every unit definition in the emitted order of  *)
(* top-level statements, however imports and definitions are arranged.     *)
C25_EmissionPlacement ==
    RewroteSome =>
        /\ EmittedOnce
        /\ \A c \in StructureChecksAt : \A u \in UnitDefinitionsAt : c < u

\* the same without the order against unit definitions
C25_EmittedOnceAfterImports == RewroteSome => EmittedOnce

\* the order against unit definitions, in files whose imports all come first
C25_PlacementWithLeadingImports ==
    (RewroteSome /\ \A i \in ImportsAt : \A j \in DOMAIN body \ ImportsAt :
                       body[j].n /= 0 => i < j) =>
        \A c \in StructureChecksAt : \A u \in UnitDefinitionsAt : c < u

\* the effect of a pass-through persist call: the factory is invoked once with the
\* given arguments, its result is returned, and nothing is stored or scheduled
PassThroughPersist ==
    /\ callCount' = callCount + 1
    /\ ret'.invoked
    /\ ret'.result = Factory(ret'.args, callCount')
    /\ UNCHANGED <<registry, prevStructure, invalidated, counters, warned, pendingResets,
                   microtasks>>

\* the step is a call of an entry point of the served module
CallsStub(op) == ret'.op = op /\ vite.module = Str(PROD_STUB)
CallsEngine(op) == ret'.op = op /\ vite.module = Str(RUNTIME_CODE)

(* C26: mode switch.  The virtual module resolves to the full engine when  *)
(* the host command is 'serve' and to the pass-through stub otherwise; the *)
(* transform hook returns nothing outside 'serve'; the stub's persist,     *)
(* with or without a store, has the effect the engine's persist has        *)
(* without a store (one factory invocation, nothing stored), and the       *)
(* stub's checkStructure changes nothing.                                  *)
C26_ModeSwitch ==
    [][/\ (ret'.op = "load" /\ ret'.id = RESOLVED_VIRTUAL_MODULE_ID) =>
              ret'.result = IF vite.command = Str("serve") THEN Str(RUNTIME_CODE)
                            ELSE Str(PROD_STUB)
       /\ (ret'.op = "transform" /\ vite.command /= Str("serve")) =>
              ret'.result = Undefined
       /\ CallsStub("persist") => PassThroughPersist
       /\ (CallsEngine("persist") /\ ret'.hot = Undefined) => PassThroughPersist
       /\ CallsStub("checkStructure") =>
              UNCHANGED <<registry, prevStructure, invalidated, counters, warned,
                          pendingResets, microtasks, callCount>>]_vars

\* after a build-mode load, the stub was called with a store that holds the state of
\* an earlier serve-mode session, and left it alone
C26_Witness ==
    /\ vite.command = Str("build")
    /\ vite.module = Str(PROD_STUB)
    /\ ret.op = "persist"
    /\ ret.hot = Hot
    /\ ret.result = Factory(<<42>>, 2)
    /\ registry /= Undefined
    /\ DOMAIN registry.fields /= {}
    /\ \A k \in DOMAIN registry.fields : registry.fields[k] = Factory(<<42>>, 1)

(* C27: every checkStructure call with a store, whether it is the first    *)
(* load, finds the summary unchanged or finds it changed, leaves           *)
(* InstanceCounters an empty mapping and leaves the incoming summary       *)
(* stored as the previous snapshot.                                        *)
C27_CheckAlwaysResets ==
    [][ChecksStore =>
          /\ counters' = MapOf(EmptyMap)
          /\ prevStructure' = Obj(ret'.structure)]_vars

\* a changed summary arrived while the counters of a render batch were still in place:
\* the counters are empty and the new summary is the snapshot
C27_Witness ==
    /\ ret.op = "checkStructure"
    /\ ret.hot = Hot
    /\ ret.structure = StructureA(2)
    /\ ret.warnings /= {}
    /\ prevBatch /= <<>>
    /\ events = <<[op |-> "checkStructure", drift |-> Drift(Obj(StructureA(1)), StructureA(2))]>>
    /\ pendingResets /= {}
    /\ counters = MapOf(EmptyMap)
    /\ prevStructure = Obj(StructureA(2))

\* the Registry before and after the step, as mappings from InstanceKey to value
RegistryBefore == IF Truthy(registry) THEN registry.fields ELSE EmptyFields
RegistryNow == IF Truthy(registry') THEN registry'.fields ELSE EmptyFields

\* the value stored under k is not the same after the step
ValueChanges(k) == k \notin DOMAIN RegistryNow \/ RegistryNow[k] /= RegistryBefore[k]

\* the persist call of the step, with its InstanceKey
LastCall == batch'[Len(batch')]

\* the step is a persist call on the store for a unit that is invalidated
OverwritesInvalidated(k) ==
    /\ ret'.op = "persist" /\ ret'.hot = Hot
    /\ UnitOf(ret'.key) \in InvalidatedUnits(invalidated)
    /\ LastCall.instanceKey = k
    /\ RegistryNow[k] = ret'.result

\* the step is a checkStructure call that finds the count of the unit of k changed
DeletesChanged(k) ==
    /\ ChecksStore
    /\ k \notin DOMAIN RegistryNow
    /\ \E u \in Drift(prevStructure, ret'.structure).units : k \in EntriesOf(u)

(* C28: Registry value stability.  Over any sequence of persist,           *)
(* checkStructure and deferred-reset steps, the value stored under an      *)
(* InstanceKey changes only when a persist call for an invalidated unit    *)
(* overwrites it or when checkStructure deletes it because the count of    *)
(* its unit changed; a cache-hit persist call returns the stored value and *)
(* leaves the whole Registry as it was.                                    *)
C28_RegistryValueStability ==
    [][/\ \A k \in DOMAIN RegistryBefore :
              ValueChanges(k) => OverwritesInvalidated(k) \/ DeletesChanged(k)
       /\ (ret'.op = "persist" /\ ret'.hot = Hot /\ ~ret'.invoked) =>
              /\ ret'.result = RegistryBefore[LastCall.instanceKey]
              /\ registry' = registry]_vars

\* a reload changed unit A: its entry was deleted and re-created, the entry of B kept
\* its value through the check, a cache hit and a deferred reset
C28_Witness ==
    /\ ret.op = "persist"
    /\ ~ret.invoked
    /\ UnitOf(ret.key) = "B"
    /\ InvalidatedUnits(invalidated) = {"A"}
    /\ \E k \in EntriesOf("B") : registry.fields[k] = ret.result /\ ret.result.ref = 1
    /\ \E k \in EntriesOf("A") : registry.fields[k].ref = 3

\* a reset of the store's counters is pending
ResetPending == HotData \in pendingResets

\* at most one reset is queued, and it is queued exactly while the marker is set
AtMostOnePending ==
    /\ Len(microtasks) <= 1
    /\ ResetPending <=> microtasks = <<ResetCallback(HotData)>>

\* a persist call schedules a reset exactly when none is pending, and the reset, when
\* it fires, empties the counters and clears the marker
ResetSteps ==
    /\ (ret'.op = "persist" /\ ret'.hot = Hot) =>
           /\ ResetPending'
           /\ microtasks' = IF ResetPending THEN microtasks
                             ELSE <<ResetCallback(HotData)>>
    /\ ret'.op = "cursorReset" =>
           /\ ResetPending /\ ~ResetPending'
           /\ counters' = MapOf(EmptyMap)
           /\ microtasks' = <<>>

(* C29: deferred counter reset.  At most one reset is pending for the      *)
(* store at any time, however many persist calls a batch makes; a pending  *)
(* reset eventually fires, and when it fires it empties InstanceCounters   *)
(* and clears the pending marker; the next persist call after that         *)
(* schedules a new reset.                                                  *)
C29_DeferredReset ==
    /\ []AtMostOnePending
    /\ [][ResetSteps]_vars
    /\ (ResetPending ~> ~ResetPending)

\* a batch of two calls scheduled one reset, it fired, and the first call of the next
\* batch scheduled a new one
C29_Witness ==
    /\ Len(prevBatch) = 2
    /\ events = <<[op |-> "cursorReset"]>>
    /\ Len(batch) = 1
    /\ ret.op = "persist"
    /\ ResetPending
    /\ microtasks = <<ResetCallback(HotData)>>

\* InstanceCounters holds no count
CountersEmpty == counters = Undefined \/ counters = MapOf(EmptyMap)

\* the calls of the current batch before the i-th one that share its CounterKey
SameKeyBefore(i) == {j \in 1..(i - 1) : batch[j].counterKey = batch[i].counterKey}

(* C30: fresh baseline at every batch start.  Whenever a render batch can  *)
(* begin, that is when no deferred reset is pending or right after a       *)
(* checkStructure call, InstanceCounters is empty, whether or not the      *)
(* batch was preceded by checkStructure; so the first call of the batch    *)
(* for each CounterKey is assigned instance number 0.                      *)
C30_FreshBaseline ==
    /\ ~ResetPending => CountersEmpty
    /\ (ret.op = "checkStructure" /\ ret.hot = Hot) => CountersEmpty
    /\ batch = <<>> => CountersEmpty
    /\ \A i \in DOMAIN batch : SameKeyBefore(i) = {} => batch[i].instanceNum = 0

\* an ancestor re-render: the batch follows a deferred reset and no checkStructure, and
\* its calls for two CounterKeys, both used in the batch before, are numbered from 0
C30_Witness ==
    /\ events = <<[op |-> "cursorReset"]>>
    /\ Len(prevBatch) = 2
    /\ Len(batch) = 2
    /\ batch[1].counterKey /= batch[2].counterKey
    /\ {batch[1].counterKey, batch[2].counterKey}
           = {prevBatch[1].counterKey, prevBatch[2].counterKey}
    /\ batch[1].instanceNum = 0
    /\ batch[2].instanceNum = 0
    /\ ~batch[1].invoked

\* scalar values, and the scalar field/value pairs of an external input
IsScalar(v) == v.t \in {"string", "number", "boolean", "null", "undefined"}
ScalarPairs(p) == {<<k, p.fields[k]>> : k \in {f \in DOMAIN p.fields : IsScalar(p.fields[f])}}

\* an object with no call-site token and no scalar id or key
FallbackOnly(p) ==
    /\ p.t = "object"
    /\ \A f \in {"__hmrSite", "id", "key"} \cap DOMAIN p.fields : ~IsScalar(p.fields[f])

(* C31: the fallback fingerprint is a function of the scalar fields only.  *)
(* For external inputs without call-site token and without scalar id or    *)
(* key, two calls of one call site whose inputs have the same scalar       *)
(* field/value pairs get the same CounterKey, whatever the insertion order *)
(* of the fields and whatever object- or function-valued fields they       *)
(* carry; an input with no scalar field gets the PersistKey itself.        *)
C31_FallbackFingerprint ==
    \A c \in ObservedCalls :
        FallbackOnly(c.props) =>
            /\ \A d \in ObservedCalls :
                  (FallbackOnly(d.props) /\ d.key = c.key
                     /\ ScalarPairs(d.props) = ScalarPairs(c.props))
                  => d.counterKey = c.counterKey
            /\ ScalarPairs(c.props) = {} => c.counterKey = c.key

\* the same scalar fields written in another order, among a function and an object:
\* the second call is the second instance under the same CounterKey
C31_Witness ==
    /\ Len(batch) = 2
    /\ batch[1].props = ObjectLiteral(<<"label", "size">>, <<Str("a"), Num(1)>>)
    /\ batch[2].props = ObjectLiteral(<<"size", "onClick", "label", "id">>,
                                      <<Num(1), Func("onClick"), Str("a"), Obj(EmptyFields)>>)
    /\ batch[1].counterKey = KeyA0 \o "::fp:label=a&size=1"
    /\ batch[2].counterKey = batch[1].counterKey
    /\ batch[2].instanceNum = 1

(* C32: no slot sharing within a cycle.  Between two consecutive counter   *)
(* resets no two persist calls on the store resolve to the same            *)
(* InstanceKey, whatever their keys and external inputs, and so no two     *)
(* calls of a cycle return the same stored entry.                          *)
C32_NoSlotSharing ==
    \A i, j \in DOMAIN batch :
        i /= j => /\ batch[i].instanceKey /= batch[j].instanceKey
                  /\ batch[i].result /= batch[j].result

\* a positional call whose key spells the CounterKey of a fingerprinted call: the two
\* share the counter and get the instance numbers 0 and 1
C32_Witness ==
    /\ Len(batch) = 2
    /\ batch[1].key = KeyA0 /\ batch[1].props = PropsId(Num(1))
    /\ batch[2].key = KeyA0 \o "::fp:id=1" /\ batch[2].props = Undefined
    /\ batch[1].counterKey = batch[2].counterKey
    /\ batch[1].instanceNum = 0
    /\ batch[2].instanceNum = 1
    /\ prevBatch /= <<>>

\* ---------------------------------------------------------------------------
\* C33: the inline fallback runtime is observationally equivalent to the built
\* runtime: after the same sequence of persist and checkStructure calls, the last
\* persist call returned the same value from both, and both have invoked the
\* factories the same number of times.
BothReturned ==
    /\ Synchronized
    /\ ret.op = "persist"
    /\ fallback.ret.op = "persist"

C33_FallbackEquivalent ==
    BothReturned => /\ fallback.ret.result = ret.result
                    /\ fallback.ret.threw = ret.threw
                    /\ fallback.callCount = callCount

\* ---------------------------------------------------------------------------
\* the step is a persist call / a checkStructure call, with or without a store
PersistStep == ret'.op = "persist"
CheckStep == ret'.op = "checkStructure"

\* the units whose count differs between the snapshot and the summary of the step
ChangedByStep == Drift(prevStructure, ret'.structure).units

(* C34: frame conditions of the two entry points.  A persist call leaves   *)
(* the previous-structure snapshot and the InvalidatedSet as they were.  A *)
(* checkStructure call invokes no factory, adds no Registry entry and      *)
(* changes the value of none; the entries it removes belong to units whose *)
(* count changed, and with an unchanged summary the Registry is identical. *)
C34_FrameConditions ==
    [][/\ PersistStep => /\ prevStructure' = prevStructure
                         /\ invalidated' = invalidated
       /\ CheckStep => /\ callCount' = callCount
                       /\ \A k \in DOMAIN RegistryNow :
                              /\ k \in DOMAIN RegistryBefore
                              /\ RegistryNow[k] = RegistryBefore[k]
                       /\ \A k \in DOMAIN RegistryBefore \ DOMAIN RegistryNow :
                              componentFromKey(k) \in ChangedByStep
                       /\ ChangedByStep = {} => registry' = registry]_vars

\* a reload changed unit A only: the check removed the entry of A, the entry of B is
\* the one the first cycle stored, and no factory ran
C34_Witness ==
    /\ ret.op = "checkStructure"
    /\ ret.warnings /= {}
    /\ InvalidatedUnits(invalidated) = {"A"}
    /\ Len(prevBatch) = 2
    /\ callCount = 2
    /\ EntriesOf("A") = {}
    /\ \E k \in EntriesOf("B") : registry.fields[k] = prevBatch[2].result
    /\ prevBatch[1].instanceKey \notin DOMAIN registry.fields

\* ---------------------------------------------------------------------------
\* the factory of the recorded call raised: it was invoked and the call returned no value
Threw(c) == c.invoked /\ c.result = Undefined

\* the step is a persist call on the store whose factory raises
RaisedInStep == ret'.op = "persist" /\ ret'.hot = Hot /\ ret'.threw

CountersBefore == IF Truthy(counters) THEN counters.m ELSE EmptyMap

\* the entry under k is neither created nor changed by the step
EntryUntouched(k) ==
    /\ k \in DOMAIN RegistryNow <=> k \in DOMAIN RegistryBefore
    /\ k \in DOMAIN RegistryBefore => RegistryNow[k] = RegistryBefore[k]

\* the steps of a failing call: the error reaches the caller, the entry is untouched,
\* the counter has advanced
FailingStep ==
    RaisedInStep =>
        /\ ret'.invoked /\ ret'.result = Undefined
        /\ EntryUntouched(LastCall.instanceKey)
        /\ counters'.m[LastCall.counterKey]
               = CounterGet(CountersBefore, LastCall.counterKey) + 1

\* a call of this cycle that resolves to the InstanceKey of a failed call of the
\* previous cycle invokes the factory
RetriedNextCycle ==
    \A i \in DOMAIN prevBatch, j \in DOMAIN batch :
        (Threw(prevBatch[i]) /\ batch[j].instanceKey = prevBatch[i].instanceKey)
            => batch[j].invoked

(* C35: factory failure.  When the factory raises during a persist call    *)
(* with a store, the error reaches the caller, the Registry entry of the   *)
(* call's InstanceKey is neither created nor changed, the counter of its   *)
(* CounterKey has advanced by one, and a persist call of a later cycle     *)
(* that resolves to that InstanceKey invokes the factory again.            *)
C35_FactoryFailure == [][FailingStep]_vars /\ []RetriedNextCycle

C35_FailingStepOnly == [][FailingStep]_vars

\* ---------------------------------------------------------------------------
\* the step is a persist call on a store on which checkStructure has never run
PersistsBeforeAnyCheck ==
    /\ ret'.op = "persist" /\ ret'.hot = Hot
    /\ prevStructure = Undefined

(* C36: persist before any checkStructure.  On a store that checkStructure *)
(* has never seen, a persist call leaves a Registry and InstanceCounters   *)
(* in the store (creating them when absent), finds no unit invalidated --  *)
(* it invokes the factory exactly when nothing is stored under its         *)
(* InstanceKey --, numbers the first call of a CounterKey 0, and on an     *)
(* invocation stores the factory's result and returns it.                  *)
C36_PersistBeforeCheck ==
    [][PersistsBeforeAnyCheck =>
          /\ registry'.t = "object"
          /\ counters'.t = "map"
          /\ invalidated = Undefined /\ invalidated' = Undefined
          /\ ret'.invoked <=> LastCall.instanceKey \notin DOMAIN RegistryBefore
          /\ LastCall.counterKey \notin DOMAIN CountersBefore => LastCall.instanceNum = 0
          /\ registry = Undefined =>
                /\ ret'.invoked
                /\ DOMAIN registry'.fields = {LastCall.instanceKey}
          /\ ret'.invoked =>
                /\ ret'.result = Factory(ret'.args, callCount')
                /\ RegistryNow[LastCall.instanceKey] = ret'.result
          /\ ~ret'.invoked => ret'.result = RegistryBefore[LastCall.instanceKey]]_vars

\* no checkStructure call yet: two units stored their values in the first cycle, and
\* after the deferred reset the call of B is numbered 0 again and gets its value back
C36_Witness ==
    /\ prevStructure = Undefined
    /\ invalidated = Undefined
    /\ ret.op = "persist" /\ ret.key = KeyB0
    /\ ~ret.invoked
    /\ Len(prevBatch) = 2
    /\ batch = <<[prevBatch[2] EXCEPT !.invoked = FALSE]>>
    /\ batch[1].instanceNum = 0
    /\ DOMAIN registry.fields = {prevBatch[1].instanceKey, prevBatch[2].instanceKey}
    /\ counters = MapOf(KeyB0 :> 1)

\* ---------------------------------------------------------------------------
\* the PersistKey written into the call the k-th visit rewrote
KeyOfVisit(k) == visited[k].node.arguments[2]

(* C37: PersistKey uniqueness.  Within one pass over a file, the           *)
(* PersistKeys written into the rewritten calls are pairwise distinct,     *)
(* also when several units of the file share a name and when calls with    *)
(* spread arguments stand between the rewritten ones.                      *)
C37_PersistKeysDistinct ==
    \A i, j \in DOMAIN visited :
        (i /= j /\ visited[i].rewritten /\ visited[j].rewritten)
            => KeyOfVisit(i) /= KeyOfVisit(j)

\* a call of the declaration App, a spread call of the arrow App, then createSignal in
\* the arrow App: same unit name, same category, indices 0 and 2
C37_Witness ==
    /\ Len(visited) = 3
    /\ UnitOfVisit(visited[1]) = FunctionDeclaration("App", <<>>)
    /\ UnitOfVisit(visited[2]) = BoundArrow("App", PropsParam)
    /\ UnitOfVisit(visited[3]) = BoundArrow("App", PropsParam)
    /\ visited[1].rewritten /\ visited[1].call.callee = Identifier("signal")
    /\ ~visited[2].rewritten /\ visited[2].call.callee = Identifier("createSignal")
    /\ visited[3].rewritten /\ visited[3].call.callee = Identifier("createSignal")
    /\ KeyOfVisit(1) = Str(PersistKey(KeyFile, "App", "signal", 0))
    /\ KeyOfVisit(3) = Str(PersistKey(KeyFile, "App", "signal", 2))

====
